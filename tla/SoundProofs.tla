---------------------------- MODULE SoundProofs ----------------------------
(***************************************************************************)
(* What acceptance by the ownership checker is worth in straight-line      *)
(* code: the program that runs uses no value that it has moved and, when   *)
(* only the variables that borrowed references hold them, no reference     *)
(* that is stale, and returns no reference to what dies with the function. *)
(***************************************************************************)
EXTENDS OwnershipSound, OwnershipCheckProofs, WellFoundedInduction

(* A cell of the running function, or a temporary, which has no name.      *)
Box == [name : Names \cup {NoName}, ty : Types, moved : BOOLEAN, owner : Nat, valid : BOOLEAN]
Run == [cells : Seq(Box), fault : Exec!Faults]

LEMMA RunFields ==
    ASSUME NEW x \in Run
    PROVE  x.cells \in Seq(Box) /\ x.fault \in Exec!Faults
BY DEF Run

LEMMA BoxFields ==
    ASSUME NEW b \in Box
    PROVE  /\ b.name \in Names \cup {NoName} /\ b.ty \in Types /\ b.moved \in BOOLEAN
           /\ b.owner \in Nat /\ b.valid \in BOOLEAN
BY DEF Box

(* The two modules read the types and the last of a set alike.             *)
LEMMA SameReading ==
    /\ \A S, d : Exec!LastOf(S, d) = LastOf(S, d)
    /\ \A t : Exec!IsCopy(t) = IsCopy(t)
    /\ \A t : Exec!IsReference(t) = IsReference(t)
    /\ \A m : Exec!RefType(m) = RefType(m)
    /\ Exec!NoName = NoName
BY DEF Exec!LastOf, LastOf, Exec!IsCopy, IsCopy, Exec!IsReference, IsReference, Exec!RefType, RefType,
    Exec!NoName, NoName

(* A set of indices that has a member has a last one.                      *)
LEMMA LastIs ==
    ASSUME NEW n \in Nat, NEW S \in SUBSET (1..n), S # {}, NEW none
    PROVE  LastOf(S, none) \in S /\ \A j \in S : j <= LastOf(S, none)
<1> DEFINE T == {n - i : i \in S}
<1>1. T \in SUBSET Nat /\ T # {}
    <2>1. \A i \in S : i \in Int /\ i <= n
        OBVIOUS
    <2>2. \A i \in S : n - i \in Nat
        BY <2>1
    <2> QED BY <2>2
<1> HIDE DEF T
<1>2. PICK m \in T : \A k \in T : <<k, m>> \notin OpToRel(<, Nat)
    BY <1>1, NatLessThanWellFounded, WFMin
<1>3. \A k \in T : ~(k < m)
    BY <1>1, <1>2 DEF OpToRel
<1>4. PICK i \in S : m = n - i
    BY <1>2 DEF T
<1>5. \A j \in S : j <= i
    <2>1. ASSUME NEW j \in S PROVE j <= i
        <3>1. n - j \in T
            BY DEF T
        <3> QED BY <1>3, <1>4, <3>1
    <2> QED BY <2>1
<1> QED BY <1>5 DEF LastOf

-----------------------------------------------------------------------------
(* The run's operations on cells.                                          *)
NewBox(n, ty, owner) == [name |-> n, ty |-> ty, moved |-> FALSE, owner |-> owner, valid |-> TRUE]

LEMMA NewCellIs ==
    ASSUME NEW n \in Names \cup {NoName}, NEW ty \in Types, NEW owner \in Nat
    PROVE  Exec!NewCell(n, ty, owner, TRUE) = NewBox(n, ty, owner) /\ NewBox(n, ty, owner) \in Box
BY DEF Exec!NewCell, NewBox, Box

(* The references to i among `which' have stopped being good.              *)
Faded(c, d, i, which) ==
    /\ d \in Seq(Box) /\ Len(d) = Len(c)
    /\ \A k \in DOMAIN c :
        d[k] = IF c[k].owner = i /\ IsReference(c[k].ty) /\ k \in which
               THEN [c[k] EXCEPT !.valid = FALSE] ELSE c[k]

LEMMA FadedIs ==
    ASSUME NEW c \in Seq(Box), NEW i, NEW which, NEW d,
           d = Exec!Tuple([k \in DOMAIN c |->
                IF c[k].owner = i /\ IsReference(c[k].ty) /\ k \in which
                THEN [c[k] EXCEPT !.valid = FALSE] ELSE c[k]])
    PROVE  Faded(c, d, i, which)
<1> DEFINE e(k) == IF c[k].owner = i /\ IsReference(c[k].ty) /\ k \in which
                   THEN [c[k] EXCEPT !.valid = FALSE] ELSE c[k]
           f == [k \in DOMAIN c |-> e(k)]
<1>1. ASSUME NEW k \in DOMAIN c PROVE e(k) \in Box
    <2>1. c[k] \in Box
        OBVIOUS
    <2>2. [c[k] EXCEPT !.valid = FALSE] \in Box
        BY <2>1 DEF Box
    <2> QED BY <2>1, <2>2
<1>2. d = f \o <<>>
    BY DEF Exec!Tuple
<1>a. \A k \in DOMAIN c : f[k] = e(k)
    OBVIOUS
<1> HIDE DEF e
<1>3. f \in Seq(Box) /\ Len(f) = Len(c)
    BY <1>1
<1> HIDE DEF f
<1>4. d = f
    BY <1>2, <1>3
<1> QED BY <1>3, <1>4, <1>a DEF Faded, e

(* Writing through a reference ends the others.                            *)
InvalidateOthers(c, i, j) ==
    Exec!Tuple([k \in DOMAIN c |->
        IF c[k].owner = i /\ IsReference(c[k].ty) /\ k \in {n \in DOMAIN c : n # j}
        THEN [c[k] EXCEPT !.valid = FALSE] ELSE c[k]])

Stored(c, i) ==
    IF ~IsReference(c[i].ty) THEN Exec!InvalidateAll(c, i)
    ELSE IF c[i].owner = 0 THEN c
    ELSE InvalidateOthers(c, c[i].owner, i)

LEMMA StoreIs ==
    ASSUME NEW x, NEW a, NEW i, i = Exec!Lookup(x.cells, a.name),
           NEW z, z = Exec!Touch(Exec!RunExpr(x, a.e, TRUE), i)
    PROVE  Exec!RunStore(x, a) = Exec!Cells(z, Stored(z.cells, i))
<1>1. \A to : Exec!Invalidate(z.cells, to, LAMBDA k : k # i) = InvalidateOthers(z.cells, to, i)
    BY SameReading DEF Exec!Invalidate, InvalidateOthers
<1> QED BY <1>1, SameReading DEF Exec!RunStore, Exec!Invalidate, Stored

LEMMA InvalidationsFade ==
    ASSUME NEW c \in Seq(Box), NEW i, NEW j
    PROVE  /\ Faded(c, Exec!InvalidateAll(c, i), i, DOMAIN c)
           /\ Faded(c, Exec!InvalidateMut(c, i), i, {k \in DOMAIN c : c[k].ty = "mut"})
           /\ Faded(c, InvalidateOthers(c, i, j), i, {k \in DOMAIN c : k # j})
<1>1. Exec!InvalidateAll(c, i) = Exec!Tuple([k \in DOMAIN c |->
            IF c[k].owner = i /\ IsReference(c[k].ty) /\ k \in DOMAIN c
            THEN [c[k] EXCEPT !.valid = FALSE] ELSE c[k]])
    BY SameReading DEF Exec!InvalidateAll, Exec!Invalidate
<1> DEFINE M == {k \in DOMAIN c : c[k].ty = "mut"}
           O == {k \in DOMAIN c : k # j}
<1>2. Exec!InvalidateMut(c, i) = Exec!Tuple([k \in DOMAIN c |->
            IF c[k].owner = i /\ IsReference(c[k].ty) /\ k \in M
            THEN [c[k] EXCEPT !.valid = FALSE] ELSE c[k]])
    BY SameReading DEF Exec!InvalidateMut, Exec!Invalidate
<1>3. InvalidateOthers(c, i, j) = Exec!Tuple([k \in DOMAIN c |->
            IF c[k].owner = i /\ IsReference(c[k].ty) /\ k \in O
            THEN [c[k] EXCEPT !.valid = FALSE] ELSE c[k]])
    BY DEF InvalidateOthers
<1> HIDE DEF M, O
<1>4. Faded(c, Exec!InvalidateMut(c, i), i, M)
    BY <1>2, FadedIs
<1>5. Faded(c, InvalidateOthers(c, i, j), i, O)
    BY <1>3, FadedIs
<1> QED BY <1>1, <1>4, <1>5, FadedIs DEF M, O

(* What a use does to a run, and what it costs when the value is gone.     *)
LEMMA TouchIs ==
    ASSUME NEW x \in Run, NEW i \in DOMAIN x.cells, ~x.cells[i].moved
    PROVE  /\ Exec!Touch(x, i) \in Run /\ Exec!Touch(x, i).cells = x.cells
           /\ Exec!Touch(x, i).fault = "moved" => x.fault = "moved"
BY SameReading DEF Exec!Touch, Exec!Raise, Run, Exec!Faults

LEMMA CellsAre ==
    ASSUME NEW x \in Run, NEW c \in Seq(Box)
    PROVE  /\ Exec!Cells(x, c) \in Run /\ Exec!Cells(x, c).cells = c /\ Exec!Cells(x, c).fault = x.fault
BY DEF Exec!Cells, Run

-----------------------------------------------------------------------------
(***************************************************************************)
(* The entries of the checker and the cells of the run: the same variables *)
(* of the same types, moved on the one side if on the other.  The cells    *)
(* past the last entry are the temporaries of a call.                      *)
(***************************************************************************)
Mirror(v, c) ==
    /\ Len(v) <= Len(c)
    /\ \A i \in DOMAIN v : /\ v[i].active /\ c[i].name = v[i].name /\ c[i].ty = v[i].ty
                           /\ c[i].moved <=> v[i].status = "Moved"
    /\ \A i \in DOMAIN c : i > Len(v) => c[i].name = NoName /\ ~c[i].moved
Named(v, n) == \E i \in DOMAIN v : v[i].name = n

(* Cells that differ in their references only.                             *)
Alike(c, d) ==
    /\ d \in Seq(Box) /\ Len(d) = Len(c)
    /\ \A k \in DOMAIN c : d[k].name = c[k].name /\ d[k].ty = c[k].ty /\ d[k].moved = c[k].moved
(* Entries that differ in their borrows only.                              *)
SameStatus(v, w) ==
    /\ Len(w) = Len(v)
    /\ \A k \in DOMAIN v : /\ w[k].name = v[k].name /\ w[k].ty = v[k].ty
                           /\ w[k].active = v[k].active /\ w[k].status = v[k].status

LEMMA FadedAlike ==
    ASSUME NEW c \in Seq(Box), NEW d, NEW i, NEW which, Faded(c, d, i, which)
    PROVE  Alike(c, d)
<1>1. ASSUME NEW k \in DOMAIN c
      PROVE  d[k].name = c[k].name /\ d[k].ty = c[k].ty /\ d[k].moved = c[k].moved
    <2>1. c[k] \in Box
        OBVIOUS
    <2>a. d[k] = c[k] \/ d[k] = [c[k] EXCEPT !.valid = FALSE]
        BY DEF Faded
    <2> QED BY <2>1, <2>a DEF Box
<1> QED BY <1>1 DEF Alike, Faded

LEMMA MirrorAlike ==
    ASSUME NEW v \in Seq(Entry), NEW c \in Seq(Box), NEW d, Mirror(v, c), Alike(c, d)
    PROVE  Mirror(v, d)
<1>1. /\ DOMAIN d = DOMAIN c /\ Len(d) = Len(c) /\ \A i \in DOMAIN v : i \in DOMAIN c
    BY DEF Mirror, Alike
<1>2. \A k \in DOMAIN c : d[k].name = c[k].name /\ d[k].ty = c[k].ty /\ d[k].moved = c[k].moved
    BY DEF Alike
<1> QED BY <1>1, <1>2 DEF Mirror

LEMMA MirrorSame ==
    ASSUME NEW v \in Seq(Entry), NEW w \in Seq(Entry), NEW c \in Seq(Box), Mirror(v, c), SameStatus(v, w)
    PROVE  Mirror(w, c)
BY DEF Mirror, SameStatus

(* Both sides look a name up alike.                                        *)
LEMMA LookupIs ==
    ASSUME NEW v \in Seq(Entry), NEW c \in Seq(Box), Mirror(v, c), NEW n \in Names
    PROVE  /\ Exec!Lookup(c, n) = Find(v, n)
           /\ Find(v, n) \in 0..Len(v)
           /\ Named(v, n) => Find(v, n) \in DOMAIN v /\ Find(v, n) \in DOMAIN c /\ v[Find(v, n)].name = n
<1> DEFINE S == {i \in DOMAIN v : v[i].active /\ v[i].name = n}
           T == {i \in DOMAIN c : c[i].name = n}
<1>1. S = T
    <2>1. ASSUME NEW i \in S PROVE i \in T
        BY DEF Mirror
    <2>2. ASSUME NEW i \in T PROVE i \in S
        <3>1. n # NoName /\ i \in DOMAIN c
            BY NamesAssumption
        <3>2. i <= Len(v)
            BY <3>1 DEF Mirror
        <3> QED BY <3>1, <3>2 DEF Mirror
    <2> QED BY <2>1, <2>2
<1>2. Exec!Lookup(c, n) = LastOf(T, 0) /\ Find(v, n) = LastOf(S, 0)
    BY SameReading DEF Exec!Lookup, Find
<1>3. ASSUME Named(v, n)
      PROVE  LastOf(S, 0) \in S
    <2>1. \A i \in DOMAIN v : v[i].active
        BY DEF Mirror
    <2>2. S # {} /\ S \in SUBSET (1..Len(v)) /\ Len(v) \in Nat
        BY <1>3, <2>1 DEF Named
    <2> HIDE DEF S
    <2> QED BY <2>2, LastIs
<1>4. Len(v) <= Len(c)
    BY DEF Mirror
<1> QED BY <1>1, <1>2, <1>3, <1>4, FindType

-----------------------------------------------------------------------------
(* What an accepted expression did: no check on its way reported anything. *)
Clean(s) == s.diags = {}
(* What a step of the run may do: anything but use a moved value.          *)
Goes(x, y) ==
    /\ y \in Run /\ Len(y.cells) = Len(x.cells)
    /\ y.fault = "moved" => x.fault = "moved"

LEMMA GoesTransitive ==
    ASSUME NEW x \in Run, NEW y, NEW z, Goes(x, y), Goes(y, z)
    PROVE  Goes(x, z)
BY DEF Goes

LEMMA ReportIsNotClean ==
    ASSUME NEW s \in State, NEW code, NEW n, NEW line
    PROVE  ~Clean(Report(s, code, n, line))
BY DEF Clean, Report, State

LEMMA CleanBefore ==
    ASSUME NEW s, NEW t, Grows(s, t), Clean(t)
    PROVE  Clean(s)
BY DEF Clean, Grows

(* A borrow that was not refused took nothing that is moved.               *)
LEMMA BorrowGranted ==
    ASSUME NEW s \in State, NEW n \in Names, NEW m \in BOOLEAN, NEW line \in Nat,
           Clean(CreateBorrow(s, n, m, line)), Find(s.vars, n) # 0
    PROVE  Lender(s.vars, n, m) = Find(s.vars, n)
<1>1. Granted(s.vars, n, m)
    BY ReportIsNotClean DEF CreateBorrow
<1> QED BY <1>1 DEF Lender

LEMMA CountedSame ==
    ASSUME NEW v, NEW w, NEW i, NEW m, Counted(v, w, i, m)
    PROVE  SameStatus(v, w)
BY DEF Counted, SameStatus, Fixed

LEMMA CreateBorrowSame ==
    ASSUME NEW s \in State, NEW n \in Names, NEW m \in BOOLEAN, NEW line \in Nat
    PROVE  SameStatus(s.vars, CreateBorrow(s, n, m, line).vars)
<1>1. s.vars \in Seq(Entry)
    BY DEF State
<1>2. Counted(s.vars, Lent(s.vars, Lender(s.vars, n, m), m), Lender(s.vars, n, m), m)
    BY <1>1, LenderType, LentIs
<1> QED BY <1>2, BorrowIs, CountedSame

LEMMA AddrSame ==
    ASSUME NEW s \in State, NEW n \in Names, NEW m \in BOOLEAN, NEW line \in Nat
    PROVE  SameStatus(s.vars, CheckAddr(s, n, m, line).vars)
BY AddrOnlyMoves DEF OnlyStatus, Fixed, SameStatus

LEMMA SameNamed ==
    ASSUME NEW v \in Seq(Entry), NEW w \in Seq(Entry), Len(w) = Len(v),
           \A k \in DOMAIN v : w[k].name = v[k].name, NEW n
    PROVE  Named(w, n) <=> Named(v, n)
BY DEF Named

(* Borrowing, on both sides.                                               *)
LEMMA BorrowGoes ==
    ASSUME NEW s \in State, NEW x \in Run, Mirror(s.vars, x.cells), NEW n \in Names, Named(s.vars, n),
           NEW m \in BOOLEAN, NEW line \in Nat, Clean(CreateBorrow(s, n, m, line))
    PROVE  /\ Goes(x, Exec!Borrow(x, Exec!Lookup(x.cells, n), m))
           /\ Alike(x.cells, Exec!Borrow(x, Exec!Lookup(x.cells, n), m).cells)
<1> DEFINE i == Find(s.vars, n)
           y == Exec!Touch(x, i)
           c == IF m THEN Exec!InvalidateAll(y.cells, i) ELSE Exec!InvalidateMut(y.cells, i)
<1>1. s.vars \in Seq(Entry) /\ x.cells \in Seq(Box)
    BY RunFields DEF State
<1>2. Exec!Lookup(x.cells, n) = i /\ i \in DOMAIN s.vars /\ i \in DOMAIN x.cells
    BY <1>1, LookupIs
<1>3. s.vars[i].status # "Moved"
    BY <1>1, <1>2, BorrowGranted, LenderLends DEF Lendable
<1>4. ~x.cells[i].moved
    BY <1>1, <1>2, <1>3 DEF Mirror
<1>5. y \in Run /\ y.cells = x.cells /\ (y.fault = "moved" => x.fault = "moved")
    BY <1>2, <1>4, TouchIs
<1>6. \E which : Faded(x.cells, c, i, which)
    BY <1>1, <1>5, InvalidationsFade
<1>7. Alike(x.cells, c)
    BY <1>1, <1>6, FadedAlike
<1>8. Exec!Borrow(x, Exec!Lookup(x.cells, n), m) = Exec!Cells(y, c)
    BY <1>2 DEF Exec!Borrow
<1> HIDE DEF y, c, i
<1>9. /\ Exec!Cells(y, c) \in Run /\ Exec!Cells(y, c).cells = c
      /\ Exec!Cells(y, c).fault = y.fault
    BY <1>5, <1>7, CellsAre DEF Alike
<1> QED BY <1>5, <1>7, <1>8, <1>9 DEF Goes, Alike

(* Reading or taking a variable, on both sides.                            *)
LEMMA IdentGoes ==
    ASSUME NEW s \in State, NEW x \in Run, Mirror(s.vars, x.cells), NEW n \in Names, Named(s.vars, n),
           NEW consume \in BOOLEAN, NEW line \in Nat, Clean(CheckIdent(s, n, consume, line)),
           NEW y, y = IF consume THEN Exec!Take(x, Exec!Lookup(x.cells, n))
                      ELSE Exec!Touch(x, Exec!Lookup(x.cells, n))
    PROVE  Goes(x, y) /\ Mirror(CheckIdent(s, n, consume, line).vars, y.cells)
<1> DEFINE i == Find(s.vars, n)
           t == CheckIdent(s, n, consume, line)
           z == Exec!Touch(x, i)
<1>1. s.vars \in Seq(Entry) /\ x.cells \in Seq(Box)
    BY RunFields DEF State
<1>2. Exec!Lookup(x.cells, n) = i /\ i \in DOMAIN s.vars /\ i \in DOMAIN x.cells
    BY <1>1, LookupIs
<1>3. i # 0 /\ s.vars[i].status # "Moved"
    BY <1>1, <1>2, ReportIsNotClean DEF CheckIdent
<1>4. ~x.cells[i].moved /\ x.cells[i].ty = s.vars[i].ty
    BY <1>1, <1>2, <1>3 DEF Mirror
<1>5. z \in Run /\ z.cells = x.cells /\ (z.fault = "moved" => x.fault = "moved")
    BY <1>2, <1>4, TouchIs
<1>6. CASE ~consume \/ IsCopy(s.vars[i].ty)
    <2>1. t = s
        BY <1>3, <1>6 DEF CheckIdent
    <2>2. y = z
        BY <1>2, <1>4, <1>6, SameReading DEF Exec!Take
    <2> QED BY <1>5, <2>1, <2>2 DEF Goes
<1>7. CASE consume /\ ~IsCopy(s.vars[i].ty)
    <2> DEFINE c == Exec!InvalidateAll(x.cells, i)
               d == [c EXCEPT ![i].moved = TRUE]
               w == [s.vars EXCEPT ![i].status = "Moved"]
    <2>1. t = [s EXCEPT !.vars[i].status = "Moved"]
        BY <1>3, <1>7, ReportIsNotClean DEF CheckIdent
    <2>2. t.vars = w
        BY <2>1 DEF State
    <2>3. y = Exec!Cells(z, d)
        BY <1>2, <1>4, <1>5, <1>7, SameReading DEF Exec!Take
    <2>4. Alike(x.cells, c)
        BY <1>1, InvalidationsFade, FadedAlike
    <2> HIDE DEF c, z, i, t
    <2>5. c[i] \in Box /\ i \in DOMAIN c
        BY <1>1, <1>2, <2>4 DEF Alike
    <2>6. [c[i] EXCEPT !.moved = TRUE] \in Box
        BY <2>5 DEF Box
    <2>7. /\ d \in Seq(Box) /\ Len(d) = Len(x.cells)
          /\ \A k \in DOMAIN x.cells : d[k] = IF k = i THEN [c[i] EXCEPT !.moved = TRUE] ELSE c[k]
        BY <1>1, <2>4, <2>5, <2>6 DEF Alike
    <2>8. \A k \in DOMAIN x.cells : /\ d[k].name = x.cells[k].name /\ d[k].ty = x.cells[k].ty
                                    /\ d[k].moved = IF k = i THEN TRUE ELSE x.cells[k].moved
        <3>1. /\ [c[i] EXCEPT !.moved = TRUE].name = c[i].name
              /\ [c[i] EXCEPT !.moved = TRUE].ty = c[i].ty
              /\ [c[i] EXCEPT !.moved = TRUE].moved
            BY <2>5 DEF Box
        <3>2. ASSUME NEW k \in DOMAIN x.cells
              PROVE  /\ d[k].name = x.cells[k].name /\ d[k].ty = x.cells[k].ty
                     /\ d[k].moved = IF k = i THEN TRUE ELSE x.cells[k].moved
            <4>1. c[k].name = x.cells[k].name /\ c[k].ty = x.cells[k].ty /\ c[k].moved = x.cells[k].moved
                BY <2>4 DEF Alike
            <4>2. d[k] = IF k = i THEN [c[i] EXCEPT !.moved = TRUE] ELSE c[k]
                BY <2>7
            <4> HIDE DEF d
            <4>3. CASE k = i
                <5>1. d[k].moved = TRUE
                    BY <3>1, <4>2, <4>3, <2>5 DEF Box
                <5> QED BY <3>1, <4>1, <4>2, <4>3, <5>1
            <4>4. CASE k # i
                BY <4>1, <4>2, <4>4
            <4> QED BY <4>3, <4>4
        <3> QED BY <3>2
    <2>9. \A k \in DOMAIN s.vars : /\ w[k].name = s.vars[k].name /\ w[k].ty = s.vars[k].ty
                                   /\ w[k].active = s.vars[k].active
                                   /\ w[k].status = IF k = i THEN "Moved" ELSE s.vars[k].status
        BY <1>1, <1>2 DEF Entry
    <2>10. Len(w) = Len(s.vars) /\ DOMAIN w = DOMAIN s.vars
        BY <1>1
    <2> HIDE DEF d, w
    <2>11. \A k \in DOMAIN s.vars : k \in DOMAIN x.cells
        BY <1>1 DEF Mirror
    <2>b. \A k \in DOMAIN x.cells : k > Len(s.vars) => k # i
        BY <1>1, <1>2
    <2>12. Mirror(w, d)
        <3>1. ASSUME NEW k \in DOMAIN w
              PROVE  /\ w[k].active /\ d[k].name = w[k].name /\ d[k].ty = w[k].ty
                     /\ d[k].moved <=> w[k].status = "Moved"
            <4>1. k \in DOMAIN s.vars /\ k \in DOMAIN x.cells
                BY <2>10, <2>11
            <4>2. /\ s.vars[k].active /\ x.cells[k].name = s.vars[k].name /\ x.cells[k].ty = s.vars[k].ty
                  /\ x.cells[k].moved <=> s.vars[k].status = "Moved"
                BY <4>1 DEF Mirror
            <4>3. CASE k = i
                BY <2>8, <2>9, <4>1, <4>2, <4>3
            <4>4. CASE k # i
                BY <2>8, <2>9, <4>1, <4>2, <4>4
            <4> QED BY <4>3, <4>4
        <3>2. ASSUME NEW k \in DOMAIN d, k > Len(w)
              PROVE  d[k].name = NoName /\ ~d[k].moved
            <4>1. k \in DOMAIN x.cells /\ k > Len(s.vars)
                BY <1>1, <2>7, <2>10, <3>2
            <4>2. x.cells[k].name = NoName /\ ~x.cells[k].moved /\ k # i
                BY <2>b, <4>1 DEF Mirror
            <4> QED BY <2>8, <4>1, <4>2
        <3>3. Len(w) <= Len(d)
            BY <2>7, <2>10 DEF Mirror
        <3> QED BY <3>1, <3>2, <3>3 DEF Mirror
    <2> QED BY <1>5, <2>2, <2>3, <2>7, <2>12, CellsAre DEF Goes, t
<1> QED BY <1>6, <1>7

LEMMA SimpleExprGoes ==
    ASSUME NEW s \in State, NEW x \in Run, Mirror(s.vars, x.cells), NEW e \in SimpleExpr,
           \A n \in SimpleMentioned(e) : Named(s.vars, n),
           NEW consume \in BOOLEAN, NEW line \in Nat, Clean(CheckSimpleExpr(s, e, consume, line))
    PROVE  /\ Goes(x, Exec!RunSimpleExpr(x, e, consume))
           /\ Mirror(CheckSimpleExpr(s, e, consume, line).vars, Exec!RunSimpleExpr(x, e, consume).cells)
<1> DEFINE y == Exec!RunSimpleExpr(x, e, consume)
           t == CheckSimpleExpr(s, e, consume, line)
<1>1. s.vars \in Seq(Entry) /\ x.cells \in Seq(Box)
    BY RunFields DEF State
<1>2. CASE e.tag = "literal"
    <2>1. y = x /\ t = s
        BY <1>2 DEF Exec!RunSimpleExpr, CheckSimpleExpr
    <2> QED BY <2>1 DEF Goes
<1>3. CASE e.tag = "ident"
    <2>1. e.name \in Names /\ Named(s.vars, e.name)
        BY <1>3 DEF SimpleExpr, SimpleMentioned
    <2>2. t = CheckIdent(s, e.name, consume, line)
        BY <1>3 DEF CheckSimpleExpr
    <2>3. y = IF consume THEN Exec!Take(x, Exec!Lookup(x.cells, e.name))
              ELSE Exec!Touch(x, Exec!Lookup(x.cells, e.name))
        BY <1>3 DEF Exec!RunSimpleExpr
    <2> HIDE DEF y
    <2> QED BY <2>1, <2>2, <2>3, IdentGoes DEF y
<1>4. CASE e.tag = "addr"
    <2>1. e.name \in Names /\ Named(s.vars, e.name) /\ e.mutable \in BOOLEAN
        BY <1>4 DEF SimpleExpr, SimpleMentioned
    <2>2. t = CheckAddr(s, e.name, e.mutable, line)
        BY <1>4 DEF CheckSimpleExpr
    <2>3. y = Exec!Borrow(x, Exec!Lookup(x.cells, e.name), e.mutable)
        BY <1>4 DEF Exec!RunSimpleExpr
    <2>4. Clean(CreateBorrow(s, e.name, e.mutable, line))
        BY <2>1, <2>2, CreateBorrowGrows DEF CheckAddr, Clean, Grows, State
    <2>5. Goes(x, y) /\ Alike(x.cells, y.cells)
        BY <2>1, <2>3, <2>4, BorrowGoes
    <2>6. SameStatus(s.vars, t.vars) /\ t.vars \in Seq(Entry)
        BY <2>1, <2>2, AddrSame, CheckAddrGrows, VarsOf
    <2>7. y.cells \in Seq(Box)
        BY <2>5 DEF Alike
    <2> HIDE DEF y, t
    <2>8. Mirror(s.vars, y.cells)
        BY <1>1, <2>5, MirrorAlike
    <2> QED BY <1>1, <2>5, <2>6, <2>7, <2>8, MirrorSame DEF y, t
<1> QED BY <1>2, <1>3, <1>4 DEF SimpleExpr

-----------------------------------------------------------------------------
(* A call: its arguments are temporaries until it is over.                 *)
LEMMA MirrorTemporary ==
    ASSUME NEW v \in Seq(Entry), NEW c \in Seq(Box), NEW b \in Box, Mirror(v, c),
           b.name = NoName, ~b.moved
    PROVE  Mirror(v, Append(c, b)) /\ Append(c, b) \in Seq(Box) /\ Len(Append(c, b)) = Len(c) + 1
<1> DEFINE d == Append(c, b)
<1>1. /\ d \in Seq(Box) /\ Len(d) = Len(c) + 1 /\ Len(v) <= Len(c)
      /\ \A k \in DOMAIN d : d[k] = IF k = Len(c) + 1 THEN b ELSE c[k]
    BY DEF Mirror
<1>2. \A k \in DOMAIN v : k \in DOMAIN c /\ k \in DOMAIN d /\ k # Len(c) + 1
    BY <1>1
<1>3. \A k \in DOMAIN d : k = Len(c) + 1 \/ k \in DOMAIN c
    BY <1>1
<1>4. \A k \in DOMAIN v : d[k] = c[k]
    BY <1>1, <1>2
<1>5. Len(v) <= Len(d)
    BY <1>1
<1> HIDE DEF d
<1>6. Mirror(v, d)
    BY <1>1, <1>2, <1>3, <1>4, <1>5 DEF Mirror
<1> QED BY <1>1, <1>6 DEF d

LEMMA MirrorPrefix ==
    ASSUME NEW v \in Seq(Entry), NEW c \in Seq(Box), Mirror(v, c), NEW n \in Nat, Len(v) <= n, n <= Len(c)
    PROVE  /\ Mirror(v, SubSeq(c, 1, n)) /\ SubSeq(c, 1, n) \in Seq(Box) /\ Len(SubSeq(c, 1, n)) = n
<1> DEFINE d == SubSeq(c, 1, n)
<1>1. /\ d \in Seq(Box) /\ Len(d) = n /\ DOMAIN d = 1..n
      /\ \A k \in 1..n : d[k] = c[k] /\ k \in DOMAIN c
    OBVIOUS
<1>2. \A k \in DOMAIN v : k \in 1..n
    OBVIOUS
<1> HIDE DEF d
<1>3. Mirror(v, d)
    BY <1>1, <1>2 DEF Mirror
<1> QED BY <1>1, <1>3 DEF d

LEMMA ArgNames ==
    ASSUME NEW s \in State, NEW a \in Argument, NEW line \in Nat
    PROVE  /\ CheckArg(s, a, line) \in State /\ CheckArg(s, a, line).vars \in Seq(Entry)
           /\ Grows(s, CheckArg(s, a, line))
           /\ Len(CheckArg(s, a, line).vars) = Len(s.vars)
           /\ \A k \in DOMAIN s.vars : CheckArg(s, a, line).vars[k].name = s.vars[k].name
<1> DEFINE t == CheckArg(s, a, line)
           u == Lent(s.vars, LentFrom(s.vars, a), LentMut(a))
<1>1. s.vars \in Seq(Entry)
    BY DEF State
<1>2. Grows(s, t) /\ t \in State /\ t.vars \in Seq(Entry)
    BY CheckArgGrows, VarsOf
<1>3. OnlyStatus(u, t.vars) /\ LentMut(a) \in BOOLEAN /\ LentFrom(s.vars, a) \in 0..Len(s.vars)
    BY ArgumentLends DEF Lendable
<1>4. Counted(s.vars, u, LentFrom(s.vars, a), LentMut(a))
    BY <1>1, <1>3, LentIs
<1> HIDE DEF t, u
<1>5. DOMAIN u = DOMAIN s.vars
    BY <1>1, <1>4 DEF Counted
<1> QED BY <1>2, <1>3, <1>4, <1>5 DEF OnlyStatus, Counted, Fixed, t

LEMMA ArgGoes ==
    ASSUME NEW s \in State, NEW x \in Run, Mirror(s.vars, x.cells), NEW a \in Argument,
           \A n \in SimpleMentioned(a.e) : Named(s.vars, n),
           NEW line \in Nat, Clean(CheckArg(s, a, line))
    PROVE  /\ Exec!Temporary(x, a) \in Run /\ Len(Exec!Temporary(x, a).cells) = Len(x.cells) + 1
           /\ Exec!Temporary(x, a).fault = "moved" => x.fault = "moved"
           /\ Mirror(CheckArg(s, a, line).vars, Exec!Temporary(x, a).cells)
<1> DEFINE consume == ~IsReference(a.param)
           y == Exec!RunSimpleExpr(x, a.e, consume)
           t == CheckArg(s, a, line)
           cell == IF a.e.tag = "addr"
                   THEN Exec!NewCell(NoName, RefType(a.e.mutable), Exec!Lookup(x.cells, a.e.name), TRUE)
                   ELSE Exec!NewCell(NoName, "copy", 0, TRUE)
<1>1. /\ s.vars \in Seq(Entry) /\ x.cells \in Seq(Box) /\ a.e \in SimpleExpr /\ consume \in BOOLEAN
      /\ t.vars \in Seq(Entry)
    BY RunFields, ArgNames DEF State, Argument, IsReference
<1>2. Exec!Temporary(x, a) = Exec!Cells(y, Append(y.cells, cell))
    BY SameReading DEF Exec!Temporary
<1>3. Goes(x, y) /\ Mirror(t.vars, y.cells)
    <2>1. CASE ~IsDirect(a)
        <3>1. t = CheckSimpleExpr(s, a.e, consume, line)
            BY <2>1 DEF CheckArg
        <3> QED BY <1>1, <3>1, SimpleExprGoes
    <2>2. CASE IsDirect(a)
        <3>1. /\ a.e.tag = "addr" /\ a.e.name \in Names /\ Named(s.vars, a.e.name)
              /\ a.e.mutable \in BOOLEAN
            BY <1>1, <2>2 DEF IsDirect, SimpleExpr, SimpleMentioned
        <3>2. CreateBorrow(s, a.e.name, a.e.mutable, line) \in State
            BY <3>1, CreateBorrowGrows DEF Grows
        <3>3. t = CreateBorrow(s, a.e.name, a.e.mutable, line)
            BY <2>2, <3>2, ReportIsNotClean DEF CheckArg
        <3>4. y = Exec!Borrow(x, Exec!Lookup(x.cells, a.e.name), a.e.mutable)
            BY <3>1 DEF Exec!RunSimpleExpr
        <3>5. Clean(CreateBorrow(s, a.e.name, a.e.mutable, line)) /\ SameStatus(s.vars, t.vars)
            BY <3>1, <3>3, CreateBorrowSame
        <3>6. Goes(x, y) /\ Alike(x.cells, y.cells)
            BY <3>1, <3>4, <3>5, BorrowGoes
        <3>7. y.cells \in Seq(Box)
            BY <3>6 DEF Alike
        <3> HIDE DEF y, t
        <3>8. Mirror(s.vars, y.cells)
            BY <1>1, <3>6, MirrorAlike
        <3> QED BY <1>1, <3>5, <3>6, <3>7, <3>8, MirrorSame
    <2> QED BY <2>1, <2>2
<1>4. cell \in Box /\ cell.name = NoName /\ ~cell.moved
    <2>1. CASE a.e.tag = "addr"
        <3>1. a.e.name \in Names /\ RefType(a.e.mutable) \in Types
            BY <1>1, <2>1 DEF SimpleExpr, RefType, Types
        <3>2. Exec!Lookup(x.cells, a.e.name) \in Nat
            BY <1>1, <3>1, LookupIs
        <3> DEFINE i == Exec!Lookup(x.cells, a.e.name)
                   ty == RefType(a.e.mutable)
        <3>3. cell = Exec!NewCell(NoName, ty, i, TRUE)
            BY <2>1
        <3> HIDE DEF cell, i, ty
        <3>4. i \in Nat /\ ty \in Types
            BY <3>1, <3>2 DEF i, ty
        <3>5. cell = NewBox(NoName, ty, i) /\ NewBox(NoName, ty, i) \in Box
            BY <3>3, <3>4, NewCellIs
        <3> QED BY <3>5 DEF NewBox
    <2>2. CASE a.e.tag # "addr"
        <3>1. "copy" \in Types /\ 0 \in Nat
            BY DEF Types
        <3>2. cell = NewBox(NoName, "copy", 0) /\ NewBox(NoName, "copy", 0) \in Box
            BY <2>2, <3>1, NewCellIs
        <3> HIDE DEF cell
        <3> QED BY <3>2 DEF NewBox
    <2> QED BY <2>1, <2>2
<1> HIDE DEF cell, y, t
<1>5. y \in Run /\ y.cells \in Seq(Box) /\ Len(y.cells) = Len(x.cells) /\ (y.fault = "moved" => x.fault = "moved")
    BY <1>3, RunFields DEF Goes
<1>6. /\ Append(y.cells, cell) \in Seq(Box) /\ Len(Append(y.cells, cell)) = Len(x.cells) + 1
      /\ Mirror(t.vars, Append(y.cells, cell))
    BY <1>1, <1>3, <1>4, <1>5, MirrorTemporary
<1> DEFINE d == Append(y.cells, cell)
<1>7. d \in Seq(Box) /\ Len(d) = Len(x.cells) + 1 /\ Mirror(t.vars, d) /\ Exec!Temporary(x, a) = Exec!Cells(y, d)
    BY <1>2, <1>6
<1> HIDE DEF d
<1>8. Exec!Cells(y, d) \in Run /\ Exec!Cells(y, d).cells = d /\ Exec!Cells(y, d).fault = y.fault
    BY <1>5, <1>7, CellsAre
<1> QED BY <1>5, <1>7, <1>8 DEF t

LEMMA ReturnedSame ==
    ASSUME NEW v, NEW w, NEW i, NEW m, Returned(v, w, i, m)
    PROVE  SameStatus(v, w)
BY DEF Returned, SameStatus, Fixed

LEMMA CallGoes ==
    ASSUME NEW s \in State, NEW x \in Run, Mirror(s.vars, x.cells), NEW a \in Argument, NEW b \in Argument,
           NEW e, e.first = a, e.second = b,
           \A n \in SimpleMentioned(a.e) \cup SimpleMentioned(b.e) : Named(s.vars, n),
           NEW line \in Nat, Clean(CheckCall(s, e, line))
    PROVE  /\ Goes(x, Exec!RunCall(x, e))
           /\ Mirror(CheckCall(s, e, line).vars, Exec!RunCall(x, e).cells)
<1> DEFINE s1 == CheckArg(s, a, line)
           s2 == CheckArg(s1, b, line)
           t == CheckCall(s, e, line)
           n == Len(x.cells)
           y1 == Exec!Temporary(x, a)
           y2 == Exec!Temporary(y1, b)
           z1 == Exec!Touch(y2, n + 1)
           z2 == Exec!Touch(z1, n + 2)
           u == ReleaseArg(s2.vars, s.vars, a)
<1>1. /\ s.vars \in Seq(Entry) /\ x.cells \in Seq(Box) /\ s1 \in State /\ s1.vars \in Seq(Entry)
      /\ Grows(s, s1) /\ Len(s1.vars) = Len(s.vars)
      /\ \A k \in DOMAIN s.vars : s1.vars[k].name = s.vars[k].name
    BY RunFields, ArgNames DEF State
<1>2. s2 \in State /\ s2.vars \in Seq(Entry) /\ Grows(s1, s2) /\ Len(s2.vars) = Len(s1.vars)
    BY <1>1, ArgNames
<1>3. t = [s2 EXCEPT !.vars = ReleaseArg(u, s1.vars, b)]
    BY DEF CheckCall
<1>4. t.vars = ReleaseArg(u, s1.vars, b) /\ t.diags = s2.diags
    BY <1>2, <1>3 DEF State
<1>5. Clean(s2) /\ Clean(s1)
    BY <1>2, <1>4, CleanBefore DEF Clean
<1>6. Exec!RunCall(x, e) = Exec!Cells(z2, SubSeq(z2.cells, 1, n))
    BY DEF Exec!RunCall
<1>7. /\ y1 \in Run /\ Len(y1.cells) = n + 1 /\ (y1.fault = "moved" => x.fault = "moved")
      /\ Mirror(s1.vars, y1.cells)
    BY <1>5, ArgGoes
<1>8. \A m \in SimpleMentioned(b.e) : Named(s1.vars, m)
    BY <1>1, SameNamed
<1> HIDE DEF s1, y1
<1>9. /\ y2 \in Run /\ Len(y2.cells) = Len(y1.cells) + 1 /\ (y2.fault = "moved" => y1.fault = "moved")
      /\ Mirror(s2.vars, y2.cells)
    BY <1>1, <1>5, <1>7, <1>8, ArgGoes
<1>10. u \in Seq(Entry) /\ SameStatus(s2.vars, u) /\ Len(u) = Len(s.vars)
    <2>1. /\ LentMut(a) \in BOOLEAN /\ LentFrom(s.vars, a) \in 0..Len(s.vars)
          /\ u = ReleaseDirect(s2.vars, LentFrom(s.vars, a), LentMut(a))
        BY ArgumentLends DEF Lendable
    <2>2. LentFrom(s.vars, a) \in 0..Len(s2.vars)
        BY <1>1, <1>2, <2>1
    <2> HIDE DEF u, s2
    <2>3. Returned(s2.vars, u, LentFrom(s.vars, a), LentMut(a))
        BY <1>2, <2>1, <2>2, ReleaseIs
    <2>4. SameStatus(s2.vars, u)
        BY <2>3, ReturnedSame
    <2> QED BY <1>1, <1>2, <2>3, <2>4 DEF Returned
<1> HIDE DEF s2, y2, u
<1>11. t.vars \in Seq(Entry) /\ SameStatus(u, t.vars) /\ Len(t.vars) = Len(s.vars)
    <2>1. /\ LentMut(b) \in BOOLEAN /\ LentFrom(s1.vars, b) \in 0..Len(s1.vars)
          /\ t.vars = ReleaseDirect(u, LentFrom(s1.vars, b), LentMut(b))
        BY <1>1, <1>4, ArgumentLends DEF Lendable
    <2>2. LentFrom(s1.vars, b) \in 0..Len(u)
        BY <1>1, <1>10, <2>1
    <2> HIDE DEF t
    <2>3. Returned(u, t.vars, LentFrom(s1.vars, b), LentMut(b))
        BY <1>10, <2>1, <2>2, ReleaseIs
    <2>4. SameStatus(u, t.vars)
        BY <2>3, ReturnedSame
    <2> QED BY <1>10, <2>3, <2>4 DEF Returned
<1>12. /\ Len(s.vars) \in Nat /\ n \in Nat /\ Len(s.vars) <= n /\ Len(y2.cells) = n + 2
       /\ y2.cells \in Seq(Box) /\ n + 1 \in DOMAIN y2.cells /\ n + 2 \in DOMAIN y2.cells
    BY <1>1, <1>7, <1>9, RunFields DEF Mirror
<1> HIDE DEF t, n
<1>13. ~y2.cells[n + 1].moved /\ ~y2.cells[n + 2].moved
    <2>1. n + 1 > Len(s2.vars) /\ n + 2 > Len(s2.vars)
        BY <1>1, <1>2, <1>12
    <2> QED BY <1>9, <1>12, <2>1 DEF Mirror
<1>14. z1 \in Run /\ z1.cells = y2.cells /\ (z1.fault = "moved" => y2.fault = "moved")
    BY <1>9, <1>12, <1>13, TouchIs
<1> HIDE DEF z1
<1>15. z2 \in Run /\ z2.cells = y2.cells /\ (z2.fault = "moved" => z1.fault = "moved")
    BY <1>12, <1>13, <1>14, TouchIs
<1> HIDE DEF z2
<1>16. Mirror(t.vars, y2.cells)
    <2>1. Mirror(u, y2.cells)
        BY <1>2, <1>9, <1>10, <1>12, MirrorSame
    <2> QED BY <1>10, <1>11, <1>12, <2>1, MirrorSame
<1>17. /\ Mirror(t.vars, SubSeq(y2.cells, 1, n)) /\ SubSeq(y2.cells, 1, n) \in Seq(Box)
       /\ Len(SubSeq(y2.cells, 1, n)) = n
    <2>1. Len(t.vars) <= n /\ n <= Len(y2.cells)
        BY <1>11, <1>12
    <2> QED BY <1>11, <1>12, <1>16, <2>1, MirrorPrefix
<1> DEFINE d == SubSeq(y2.cells, 1, n)
<1>a. Exec!RunCall(x, e) = Exec!Cells(z2, d) /\ d \in Seq(Box)
    BY <1>6, <1>15, <1>17
<1> HIDE DEF d
<1>b. Exec!RunCall(x, e) \in Run /\ Exec!RunCall(x, e).cells = d /\ Exec!RunCall(x, e).fault = z2.fault
    BY <1>15, <1>a, CellsAre
<1>18. /\ Exec!RunCall(x, e) \in Run /\ Exec!RunCall(x, e).cells = SubSeq(y2.cells, 1, n)
       /\ Exec!RunCall(x, e).fault = z2.fault
    BY <1>b DEF d
<1> QED BY <1>7, <1>9, <1>14, <1>15, <1>17, <1>18 DEF Goes, t, n

LEMMA ExprGoes ==
    ASSUME NEW s \in State, NEW x \in Run, Mirror(s.vars, x.cells), NEW e \in Expr,
           \A n \in Mentioned(e) : Named(s.vars, n),
           NEW consume \in BOOLEAN, NEW line \in Nat, Clean(CheckExpr(s, e, consume, line))
    PROVE  /\ Goes(x, Exec!RunExpr(x, e, consume))
           /\ Mirror(CheckExpr(s, e, consume, line).vars, Exec!RunExpr(x, e, consume).cells)
<1>1. CASE e.tag = "call"
    <2>1. e.first \in Argument /\ e.second \in Argument
        BY <1>1 DEF Expr, SimpleExpr
    <2>2. Mentioned(e) = SimpleMentioned(e.first.e) \cup SimpleMentioned(e.second.e)
        BY <1>1 DEF Mentioned
    <2>3. CheckExpr(s, e, consume, line) = CheckCall(s, e, line) /\ Exec!RunExpr(x, e, consume) = Exec!RunCall(x, e)
        BY <1>1 DEF CheckExpr, Exec!RunExpr
    <2> QED BY <2>1, <2>2, <2>3, CallGoes
<1>2. CASE e.tag = "refcall"
    <2> DEFINE y == Exec!Borrow(x, Exec!Lookup(x.cells, e.name), e.mutable)
               t == CheckAddr(s, e.name, e.mutable, line)
    <2>1. e.name \in Names /\ e.mutable \in BOOLEAN /\ Named(s.vars, e.name)
        BY <1>2 DEF Expr, SimpleExpr, Mentioned, SimpleMentioned
    <2>2. CheckExpr(s, e, consume, line) = t /\ Exec!RunExpr(x, e, consume) = y
        BY <1>2 DEF CheckExpr, Exec!RunExpr, Exec!RunSimpleExpr
    <2>3. Clean(CreateBorrow(s, e.name, e.mutable, line))
        BY <2>1, <2>2, CreateBorrowGrows DEF CheckAddr, Clean, Grows, State
    <2>4. Goes(x, y) /\ Alike(x.cells, y.cells)
        BY <2>1, <2>3, BorrowGoes
    <2>5. SameStatus(s.vars, t.vars) /\ t.vars \in Seq(Entry)
        BY <2>1, AddrSame, CheckAddrGrows, VarsOf
    <2>6. y.cells \in Seq(Box) /\ s.vars \in Seq(Entry) /\ x.cells \in Seq(Box)
        BY <2>4, RunFields DEF Alike, State
    <2> HIDE DEF y, t
    <2>7. Mirror(s.vars, y.cells)
        BY <2>4, <2>6, MirrorAlike
    <2>8. Mirror(t.vars, y.cells)
        BY <2>5, <2>6, <2>7, MirrorSame
    <2> QED BY <2>2, <2>4, <2>8
<1>3. CASE e.tag \notin {"call", "refcall"}
    <2>1. e \in SimpleExpr
        BY <1>3 DEF Expr
    <2>2. Mentioned(e) = SimpleMentioned(e)
        BY <1>3 DEF Mentioned
    <2>3. /\ CheckExpr(s, e, consume, line) = CheckSimpleExpr(s, e, consume, line)
          /\ Exec!RunExpr(x, e, consume) = Exec!RunSimpleExpr(x, e, consume)
        BY <1>3 DEF CheckExpr, Exec!RunExpr
    <2> QED BY <2>1, <2>2, <2>3, SimpleExprGoes
<1> QED BY <1>1, <1>2, <1>3

-----------------------------------------------------------------------------
(* An expression moves nothing that it does not mention.                   *)
Untouched(v, w, N) == \A k \in DOMAIN v : v[k].name \notin N => w[k].status = v[k].status

LEMMA SameUntouched ==
    ASSUME NEW v, NEW w, SameStatus(v, w), NEW N
    PROVE  Untouched(v, w, N)
BY DEF SameStatus, Untouched

LEMMA IdentTouches ==
    ASSUME NEW s \in State, NEW n \in Names, NEW consume \in BOOLEAN, NEW line \in Nat
    PROVE  Untouched(s.vars, CheckIdent(s, n, consume, line).vars, {n})
<1> DEFINE i == Find(s.vars, n)
           t == CheckIdent(s, n, consume, line)
<1>1. s.vars \in Seq(Entry) /\ \A code : Report(s, code, n, line).vars = s.vars
    BY ReportKeepsVars DEF State
<1>2. i \in {k \in DOMAIN s.vars : s.vars[k].active /\ s.vars[k].name = n} \cup {0}
    BY ExtremeType DEF Find
<1>3. CASE i # 0 /\ t = [s EXCEPT !.vars[i].status = "Moved"]
    <2>1. t.vars = [s.vars EXCEPT ![i].status = "Moved"]
        BY <1>3 DEF State
    <2>2. \A k \in DOMAIN s.vars : k # i => t.vars[k] = s.vars[k]
        BY <1>1, <2>1
    <2> QED BY <1>2, <1>3, <2>2 DEF Untouched
<1>4. CASE t.vars = s.vars
    BY <1>4 DEF Untouched
<1> QED BY <1>1, <1>3, <1>4 DEF CheckIdent

LEMMA SimpleExprTouches ==
    ASSUME NEW s \in State, NEW e \in SimpleExpr, NEW consume \in BOOLEAN, NEW line \in Nat
    PROVE  Untouched(s.vars, CheckSimpleExpr(s, e, consume, line).vars, SimpleMentioned(e))
<1>1. CASE e.tag = "literal"
    BY <1>1 DEF CheckSimpleExpr, Untouched
<1>2. CASE e.tag = "ident"
    BY <1>2, IdentTouches DEF SimpleExpr, CheckSimpleExpr, SimpleMentioned
<1>3. CASE e.tag = "addr"
    BY <1>3, AddrSame, SameUntouched DEF SimpleExpr, CheckSimpleExpr
<1> QED BY <1>1, <1>2, <1>3 DEF SimpleExpr

LEMMA ArgTouches ==
    ASSUME NEW s \in State, NEW a \in Argument, NEW line \in Nat
    PROVE  Untouched(s.vars, CheckArg(s, a, line).vars, SimpleMentioned(a.e))
<1>1. a.e \in SimpleExpr /\ (~IsReference(a.param)) \in BOOLEAN
    BY DEF Argument, IsReference
<1>2. CASE ~IsDirect(a)
    BY <1>1, <1>2, SimpleExprTouches DEF CheckArg
<1>3. CASE IsDirect(a)
    <2> DEFINE lent == CreateBorrow(s, a.e.name, a.e.mutable, line)
    <2>1. a.e.name \in Names /\ a.e.mutable \in BOOLEAN
        BY <1>1, <1>3 DEF IsDirect, SimpleExpr
    <2>2. lent \in State /\ SameStatus(s.vars, lent.vars)
        BY <2>1, CreateBorrowGrows, CreateBorrowSame DEF Grows
    <2>3. CheckArg(s, a, line).vars = lent.vars
        BY <1>3, <2>2, ReportKeepsVars DEF CheckArg
    <2> HIDE DEF lent
    <2> QED BY <2>2, <2>3, SameUntouched
<1> QED BY <1>2, <1>3

LEMMA ExprTouches ==
    ASSUME NEW s \in State, NEW e \in Expr, NEW consume \in BOOLEAN, NEW line \in Nat
    PROVE  Untouched(s.vars, CheckExpr(s, e, consume, line).vars, Mentioned(e))
<1>1. CASE e.tag = "call"
    <2> DEFINE s1 == CheckArg(s, e.first, line)
               s2 == CheckArg(s1, e.second, line)
    <2>1. e.first \in Argument /\ e.second \in Argument
        BY <1>1 DEF Expr, SimpleExpr
    <2>2. Mentioned(e) = SimpleMentioned(e.first.e) \cup SimpleMentioned(e.second.e)
        BY <1>1 DEF Mentioned
    <2>3. CheckExpr(s, e, consume, line) = CheckCall(s, e, line)
        BY <1>1 DEF CheckExpr
    <2>4. /\ s1 \in State /\ Len(s1.vars) = Len(s.vars) /\ s1.vars \in Seq(Entry) /\ s.vars \in Seq(Entry)
          /\ \A k \in DOMAIN s.vars : s1.vars[k].name = s.vars[k].name
        BY <2>1, ArgNames DEF State
    <2>5. Untouched(s.vars, s1.vars, SimpleMentioned(e.first.e))
        BY <2>1, ArgTouches
    <2>6. Untouched(s1.vars, s2.vars, SimpleMentioned(e.second.e))
        BY <2>1, <2>4, ArgTouches
    <2>7. \A k \in DOMAIN s.vars : CheckCall(s, e, line).vars[k].status = s2.vars[k].status
        BY <2>1, CallOnlyMoves
    <2> HIDE DEF s1, s2
    <2>8. DOMAIN s1.vars = DOMAIN s.vars
        BY <2>4
    <2> QED BY <2>2, <2>3, <2>4, <2>5, <2>6, <2>7, <2>8 DEF Untouched
<1>2. CASE e.tag = "refcall"
    BY <1>2, AddrSame, SameUntouched DEF Expr, SimpleExpr, CheckExpr
<1>3. CASE e.tag \notin {"call", "refcall"}
    <2>1. e \in SimpleExpr
        BY <1>3 DEF Expr
    <2>2. Mentioned(e) = SimpleMentioned(e)
        BY <1>3 DEF Mentioned
    <2> QED BY <1>3, <2>1, <2>2, SimpleExprTouches DEF CheckExpr
<1> QED BY <1>1, <1>2, <1>3

-----------------------------------------------------------------------------
(* Statements: entries and cells stay in step, without temporaries.        *)
InStep(v, c) == Mirror(v, c) /\ Len(c) = Len(v)
(* A statement took the run from x to y and the checker's entries to w.    *)
StaysInStep(x, y, w) == y \in Run /\ (y.fault = "moved" => x.fault = "moved") /\ InStep(w, y.cells)

LEMMA MirrorAppend ==
    ASSUME NEW v \in Seq(Entry), NEW c \in Seq(Box), InStep(v, c), NEW e \in Entry, NEW b \in Box,
           e.active, e.status = "Available", b.name = e.name, b.ty = e.ty, ~b.moved
    PROVE  InStep(Append(v, e), Append(c, b)) /\ Append(c, b) \in Seq(Box)
<1> DEFINE w == Append(v, e)
           d == Append(c, b)
           n == Len(v)
<1>1. /\ w \in Seq(Entry) /\ d \in Seq(Box) /\ Len(w) = n + 1 /\ Len(d) = n + 1 /\ n \in Nat
      /\ \A k \in 1..n : w[k] = v[k] /\ d[k] = c[k] /\ k \in DOMAIN v
      /\ w[n + 1] = e /\ d[n + 1] = b
    BY DEF InStep
<1> HIDE DEF w, d, n
<1>2. ASSUME NEW k \in DOMAIN w
      PROVE  /\ w[k].active /\ d[k].name = w[k].name /\ d[k].ty = w[k].ty
             /\ d[k].moved <=> w[k].status = "Moved"
    <2>1. k \in 1..n \/ k = n + 1
        BY <1>1
    <2>2. CASE k \in 1..n
        BY <1>1, <2>2 DEF InStep, Mirror
    <2>3. CASE k = n + 1
        BY <1>1, <2>3
    <2> QED BY <2>1, <2>2, <2>3
<1>3. \A k \in DOMAIN d : ~(k > Len(w))
    BY <1>1
<1>4. Len(w) <= Len(d)
    BY <1>1
<1> QED BY <1>1, <1>2, <1>3, <1>4 DEF InStep, Mirror, w, d

LEMMA ValueIs ==
    ASSUME NEW v \in Seq(Entry), NEW c \in Seq(Box), Mirror(v, c), NEW e \in Expr, NEW declared \in Types,
           \A n \in Mentioned(e) : Named(v, n)
    PROVE  /\ Exec!Referent(c, e) \in Nat
           /\ Exec!ValueType(c, e, declared) =
                CASE e.tag = "ident" -> TypeOf(v, e.name)
                  [] e.tag = "addr" -> RefType(e.mutable)
                  [] e.tag = "refcall" -> RefType(e.returnsMut)
                  [] OTHER -> declared
<1>1. CASE e.tag \in {"ident", "addr", "refcall"}
    <2> DEFINE i == Exec!Lookup(c, e.name)
    <2>1. e.name \in Names /\ Named(v, e.name)
        BY <1>1 DEF Expr, SimpleExpr, Mentioned, SimpleMentioned
    <2>2. i = Find(v, e.name) /\ i \in DOMAIN c /\ i \in DOMAIN v /\ i # 0
        BY <2>1, LookupIs
    <2>3. c[i] \in Box /\ c[i].owner \in Nat /\ c[i].ty = v[i].ty
        BY <2>2, BoxFields DEF Mirror
    <2> QED BY <1>1, <2>2, <2>3, SameReading DEF Exec!Referent, Exec!ValueType, TypeOf
<1>2. CASE e.tag \notin {"ident", "addr", "refcall"}
    BY <1>2 DEF Exec!Referent, Exec!ValueType
<1> QED BY <1>1, <1>2

LEMMA LetGoes ==
    ASSUME NEW s \in State, NEW x \in Run, InStep(s.vars, x.cells), NEW a \in Statement, a.tag = "let",
           \A n \in Mentioned(a.e) : Named(s.vars, n),
           NEW line \in Nat, prog \in Seq(Statement), Clean(CheckLet(s, a, line))
    PROVE  StaysInStep(x, Exec!RunLet(x, a), CheckLet(s, a, line).vars)
<1> DEFINE t == CheckLet(s, a, line)
           y == Exec!RunExpr(x, a.e, TRUE)
           ty == Exec!ValueType(x.cells, a.e, a.ty)
           owner == Exec!Referent(x.cells, a.e)
           b == NewBox(a.name, ty, owner)
<1>1. /\ a.name \in Names /\ a.ty \in Types /\ a.mutable \in BOOLEAN /\ a.e \in Expr
      /\ s.vars \in Seq(Entry) /\ x.cells \in Seq(Box) /\ Mirror(s.vars, x.cells)
    BY RunFields DEF Statement, State, InStep
<1>2. owner \in Nat /\ ty = CASE a.e.tag = "ident" -> TypeOf(s.vars, a.e.name)
                              [] a.e.tag = "addr" -> RefType(a.e.mutable)
                              [] a.e.tag = "refcall" -> RefType(a.e.returnsMut)
                              [] OTHER -> a.ty
    BY <1>1, ValueIs
<1>3. \E u \in Seq(Entry), e \in Entry :
        /\ t.vars = Append(u, e) /\ e.active /\ e.status = "Available" /\ e.name = a.name /\ e.ty = ty
        /\ Len(u) = Len(s.vars) /\ Goes(x, y) /\ Mirror(u, y.cells)
    <2>1. CASE IsBorrow(a)
        <3> DEFINE r == CheckAddr(s, a.e.name, a.e.mutable, line)
                   s1 == IF a.e.tag = "addr" THEN s ELSE r
                   bm == BorrowsMut(a)
                   i == Lender(s1.vars, a.e.name, bm)
                   u == Lent(s1.vars, i, bm)
                   e == LentEntry(s1.vars, a.name, a.mutable, a.e.name, bm, line)
        <3>1. /\ a.e.name \in Names /\ bm \in BOOLEAN /\ a.e.tag \in {"addr", "refcall"} /\ a.e.mutable \in BOOLEAN
              /\ ty = RefType(bm) /\ Named(s.vars, a.e.name)
            BY <1>1, <1>2, <2>1 DEF IsBorrow, Expr, SimpleExpr, BorrowsMut, Mentioned, SimpleMentioned
        <3>2. /\ Grows(s, r) /\ SameStatus(s.vars, r.vars)
            BY <3>1, CheckAddrGrows, AddrSame
        <3>3. s1 \in State /\ s1.vars \in Seq(Entry) /\ SameStatus(s.vars, s1.vars)
            BY <1>1, <3>2 DEF Grows, State, SameStatus
        <3>4. t = LetBorrow(s1, a.name, a.mutable, a.e.name, bm, line)
            BY <3>1 DEF CheckLet, CheckExpr, BorrowsMut
        <3>5. CreateBorrow(s1, a.e.name, bm, line) \in State
            BY <3>1, <3>3, CreateBorrowGrows DEF Grows
        <3>6. Clean(CreateBorrow(s1, a.e.name, bm, line))
            BY <3>4, <3>5 DEF LetBorrow, AddVar, Clean, State
        <3>7. /\ s1 = r => Clean(CreateBorrow(s, a.e.name, a.e.mutable, line))
              /\ s1 = s => bm = a.e.mutable \/ s = r
            <4>1. ASSUME s1 = r PROVE Clean(r)
                BY <3>1, <3>3, <3>6, <4>1, CreateBorrowGrows, CleanBefore
            <4> QED BY <3>1, <4>1, CreateBorrowGrows DEF CheckAddr, Clean, Grows, State, BorrowsMut
        <3>8. Clean(CreateBorrow(s, a.e.name, a.e.mutable, line))
            BY <3>6, <3>7
        <3>9. y = Exec!Borrow(x, Exec!Lookup(x.cells, a.e.name), a.e.mutable)
            BY <3>1 DEF Exec!RunExpr, Exec!RunSimpleExpr
        <3>10. Goes(x, y) /\ Alike(x.cells, y.cells)
            BY <1>1, <3>1, <3>8, <3>9, BorrowGoes
        <3>11. i \in 0..Len(s1.vars)
            BY <3>3, LenderType
        <3> HIDE DEF t, y, s1, bm, i, ty
        <3>12. Counted(s1.vars, u, i, bm)
            BY <3>1, <3>3, <3>11, LentIs
        <3>13. u \in Seq(Entry) /\ SameStatus(s1.vars, u)
            <4> HIDE DEF u
            <4>1. SameStatus(s1.vars, u)
                BY <3>12, CountedSame
            <4> QED BY <3>12, <4>1 DEF Counted
        <3>14. t.vars = Append(u, e)
            <4>a. a.name \in Names /\ a.mutable \in BOOLEAN /\ a.e.name \in Names /\ bm \in BOOLEAN /\ s1 \in State
                BY <1>1, <3>1, <3>3
            <4>b. LetBorrow(s1, a.name, a.mutable, a.e.name, bm, line).vars =
                  LentVars(s1.vars, a.name, a.mutable, a.e.name, bm, line)
                BY <4>a, LetBorrowIs
            <4>1. t.vars = LentVars(s1.vars, a.name, a.mutable, a.e.name, bm, line)
                BY <3>4, <4>b
            <4> QED BY <4>1 DEF LentVars, i
        <3>15. e \in Entry /\ e.active /\ e.name = a.name
            BY <1>1, <3>1, LentEntryIs
        <3>16. e.status = "Available" /\ e.ty = ty
            <4>1. \A n, tt, m, src, b2, be : /\ NewRefEntry(n, tt, m, src, b2, be).status = "Available"
                                           /\ NewRefEntry(n, tt, m, src, b2, be).ty = tt
                BY DEF NewRefEntry, NewEntry
            <4>2. e.status = "Available" /\ e.ty = RefType(bm)
                BY <4>1 DEF LentEntry
            <4> QED BY <3>1, <4>2
        <3>18. e \in Entry /\ e.active /\ e.status = "Available" /\ e.name = a.name /\ e.ty = ty
            BY <3>15, <3>16
        <3> HIDE DEF u, e
        <3>19. y.cells \in Seq(Box)
            BY <3>10 DEF Alike
        <3>20. Mirror(u, y.cells)
            <4>1. Mirror(s.vars, y.cells)
                BY <1>1, <3>10, MirrorAlike
            <4>2. Mirror(s1.vars, y.cells)
                BY <1>1, <3>3, <3>19, <4>1, MirrorSame
            <4> QED BY <3>3, <3>13, <3>19, <4>2, MirrorSame
        <3>21. Len(u) = Len(s.vars)
            BY <3>3, <3>13 DEF SameStatus
        <3> QED BY <3>10, <3>13, <3>14, <3>18, <3>20, <3>21
    <2>2. CASE ~IsBorrow(a)
        <3> DEFINE s1 == CheckExpr(s, a.e, TRUE, line)
                   e == NewEntry(a.name, ty, a.mutable, 0)
        <3>1. ~(a.e.tag = "call" /\ IsReference(a.ty))
            <4> SUFFICES ASSUME a.e.tag = "call" /\ IsReference(a.ty) PROVE FALSE
                OBVIOUS
            <4> DEFINE r == CheckExpr(s, a.e, FALSE, line)
                       q == Report(r, "E5008", NoName, line)
            <4>1. t = AddVar(q, NewRefEntry(a.name, a.ty, a.mutable, NoName, FALSE, Released))
                BY DEF CheckLet
            <4>2. r \in State
                BY <1>1, CheckExprGrows DEF Grows
            <4>3. q \in State
                BY <4>2, ReportGrows DEF Grows, Codes
            <4> HIDE DEF r, t
            <4>4. ~Clean(q)
                BY <4>2, ReportIsNotClean
            <4> HIDE DEF q
            <4> QED BY <4>1, <4>3, <4>4 DEF AddVar, Clean, State, t
        <3>2. ty = IF a.e.tag = "ident" THEN TypeOf(s.vars, a.e.name) ELSE a.ty
            BY <1>2, <2>2 DEF IsBorrow
        <3>3. t = AddVar(s1, e)
            BY <2>2, <3>1, <3>2 DEF CheckLet, IsBorrow
        <3>4. Grows(s, s1) /\ s1 \in State /\ s1.vars \in Seq(Entry)
            BY <1>1, CheckExprGrows, VarsOf
        <3>5. ty \in Types
            BY <1>1, <3>2, TypeOfType, FindType DEF TypeOf, Entry, Types
        <3>6. e \in Entry /\ e.active /\ e.status = "Available" /\ e.name = a.name /\ e.ty = ty
            <4> HIDE DEF ty
            <4>1. e \in Entry
                BY <1>1, <3>5, NewEntryType
            <4>2. e.active /\ e.status = "Available" /\ e.name = a.name /\ e.ty = ty
                BY DEF NewEntry
            <4> QED BY <4>1, <4>2
        <3>7. OnlyStatus(s.vars, s1.vars)
            BY <1>1, ExprOnlyMoves
        <3> HIDE DEF s1, e, y, t, ty
        <3>8. t.vars = Append(s1.vars, e) /\ t.diags = s1.diags
            BY <3>3, <3>4 DEF AddVar, State
        <3>9. Clean(s1)
            BY <3>8 DEF Clean, t
        <3>10. Goes(x, y) /\ Mirror(s1.vars, y.cells)
            BY <1>1, <3>9, ExprGoes DEF s1, y
        <3> QED BY <3>4, <3>6, <3>7, <3>8, <3>10 DEF OnlyStatus
    <2> QED BY <2>1, <2>2
<1>4. PICK u \in Seq(Entry), e \in Entry :
        /\ t.vars = Append(u, e) /\ e.active /\ e.status = "Available" /\ e.name = a.name /\ e.ty = ty
        /\ Len(u) = Len(s.vars) /\ Goes(x, y) /\ Mirror(u, y.cells)
    BY <1>3
<1>5. Exec!RunLet(x, a) = Exec!Cells(y, Append(y.cells, b))
    <2>1. ty \in Types
        BY <1>4, EntryFields
    <2>2. Exec!RunLet(x, a) = Exec!Cells(y, Append(y.cells, Exec!NewCell(a.name, ty, owner, TRUE)))
        BY DEF Exec!RunLet
    <2> HIDE DEF ty, owner, y
    <2> QED BY <1>1, <1>2, <2>1, <2>2, NewCellIs
<1> HIDE DEF t, y, ty, owner
<1>6. b \in Box /\ b.name = a.name /\ b.ty = ty /\ ~b.moved
    BY <1>1, <1>2, <1>4, NewCellIs, EntryFields DEF NewBox
<1> HIDE DEF b
<1>7. y \in Run /\ y.cells \in Seq(Box) /\ InStep(u, y.cells)
    BY <1>4, RunFields DEF Goes, InStep
<1> DEFINE d == Append(y.cells, b)
<1>8. InStep(t.vars, d) /\ d \in Seq(Box)
    BY <1>4, <1>6, <1>7, MirrorAppend
<1> HIDE DEF d
<1>9. Exec!RunLet(x, a) = Exec!Cells(y, d)
    BY <1>5 DEF d
<1> QED BY <1>4, <1>7, <1>8, <1>9, CellsAre DEF StaysInStep, Goes, t

(* A variable that is assigned has its value again.                        *)
LEMMA Revived ==
    ASSUME NEW u \in Seq(Entry), NEW c \in Seq(Box), InStep(u, c), NEW i \in DOMAIN u, NEW o \in Nat,
           NEW w, w = [u EXCEPT ![i].status = "Available"],
           NEW d, d = [c EXCEPT ![i].moved = FALSE, ![i].valid = TRUE, ![i].owner = o]
    PROVE  w \in Seq(Entry) /\ d \in Seq(Box) /\ InStep(w, d)
<1> DEFINE e == [u[i] EXCEPT !.status = "Available"]
           b == [c[i] EXCEPT !.moved = FALSE, !.valid = TRUE, !.owner = o]
<1>1. u[i] \in Entry /\ i \in DOMAIN c /\ c[i] \in Box
    BY DEF InStep
<1>2. e \in Entry /\ e.name = u[i].name /\ e.ty = u[i].ty /\ e.active = u[i].active /\ e.status = "Available"
    BY <1>1 DEF Entry
<1>3. b \in Box /\ b.name = c[i].name /\ b.ty = c[i].ty /\ ~b.moved
    BY <1>1 DEF Box
<1>4. w = [u EXCEPT ![i] = e] /\ d = [c EXCEPT ![i] = b]
    BY <1>1
<1> HIDE DEF e, b
<1>5. /\ w \in Seq(Entry) /\ d \in Seq(Box) /\ Len(w) = Len(u) /\ Len(d) = Len(c)
      /\ \A k \in DOMAIN u : w[k] = IF k = i THEN e ELSE u[k]
      /\ \A k \in DOMAIN c : d[k] = IF k = i THEN b ELSE c[k]
    <2>1. /\ w \in Seq(Entry) /\ Len(w) = Len(u)
          /\ \A k \in DOMAIN u : w[k] = IF k = i THEN e ELSE u[k]
        <3> DEFINE v == [u EXCEPT ![i] = e]
        <3>1. v \in Seq(Entry) /\ Len(v) = Len(u) /\ \A k \in DOMAIN u : v[k] = IF k = i THEN e ELSE u[k]
            BY <1>1, <1>2
        <3>2. w = v
            BY <1>4
        <3> HIDE DEF v
        <3> QED BY <3>1, <3>2
    <2>2. /\ d \in Seq(Box) /\ Len(d) = Len(c)
          /\ \A k \in DOMAIN c : d[k] = IF k = i THEN b ELSE c[k]
        <3> DEFINE v == [c EXCEPT ![i] = b]
        <3>1. v \in Seq(Box) /\ Len(v) = Len(c) /\ \A k \in DOMAIN c : v[k] = IF k = i THEN b ELSE c[k]
            BY <1>1, <1>3
        <3>2. d = v
            BY <1>4
        <3> HIDE DEF v
        <3> QED BY <3>1, <3>2
    <2> QED BY <2>1, <2>2
<1>6. ASSUME NEW k \in DOMAIN w
      PROVE  /\ w[k].active /\ d[k].name = w[k].name /\ d[k].ty = w[k].ty
             /\ d[k].moved <=> w[k].status = "Moved"
    <2>1. k \in DOMAIN u /\ k \in DOMAIN c
        BY <1>5 DEF InStep
    <2>2. /\ u[k].active /\ c[k].name = u[k].name /\ c[k].ty = u[k].ty
          /\ c[k].moved <=> u[k].status = "Moved"
        BY <2>1 DEF InStep, Mirror
    <2>3. CASE k = i
        <3>1. w[k] = e /\ d[k] = b
            BY <1>5, <2>1, <2>3
        <3> QED BY <1>2, <1>3, <2>2, <2>3, <3>1
    <2>4. CASE k # i
        BY <1>5, <2>1, <2>2, <2>4
    <2> QED BY <2>3, <2>4
<1>7. Len(d) = Len(w) /\ Len(w) <= Len(d) /\ \A k \in DOMAIN d : ~(k > Len(w))
    BY <1>5 DEF InStep
<1> QED BY <1>5, <1>6, <1>7 DEF InStep, Mirror

LEMMA AssignGoes ==
    ASSUME NEW s \in State, NEW x \in Run, InStep(s.vars, x.cells), NEW a \in Statement, a.tag = "assign",
           \A n \in Mentioned(a.e) : Named(s.vars, n), Named(s.vars, a.name),
           NEW line \in Nat, Clean(CheckAssign(s, a, line))
    PROVE  StaysInStep(x, Exec!RunAssign(x, a), CheckAssign(s, a, line).vars)
<1> DEFINE i == Find(s.vars, a.name)
           s1 == ReportIf(~s.vars[i].mutable, s, "E5004", a.name, line)
           s2 == ReportIf(Borrowed(s.vars[i]), s1, "E5002", a.name, line)
           s3 == CheckExpr(s2, a.e, TRUE, line)
           t == CheckAssign(s, a, line)
           y == Exec!RunExpr(x, a.e, TRUE)
           c == Exec!InvalidateAll(y.cells, i)
           o == Exec!Referent(x.cells, a.e)
           d == [c EXCEPT ![i].moved = FALSE, ![i].valid = TRUE, ![i].owner = o]
           w == [s3.vars EXCEPT ![i].status = "Available"]
<1>1. /\ a.name \in Names /\ a.e \in Expr /\ s.vars \in Seq(Entry) /\ x.cells \in Seq(Box)
      /\ Mirror(s.vars, x.cells) /\ Len(x.cells) = Len(s.vars)
    BY RunFields DEF Statement, State, InStep
<1>2. Exec!Lookup(x.cells, a.name) = i /\ i \in DOMAIN s.vars /\ i # 0
    BY <1>1, LookupIs
<1>3. s1 \in State /\ s1.vars = s.vars
    <2>1. Grows(s, s1) /\ s1.vars = s.vars
        <3>1. "E5004" \in Codes
            BY DEF Codes
        <3> QED BY <1>1, <3>1, ReportIfGrows
    <2> QED BY <2>1 DEF Grows
<1>4. s2 \in State /\ s2.vars = s.vars
    <2> HIDE DEF s1
    <2>1. Grows(s1, s2) /\ s2.vars = s1.vars
        <3>1. "E5002" \in Codes
            BY DEF Codes
        <3> QED BY <1>1, <1>3, <3>1, ReportIfGrows
    <2> QED BY <1>3, <2>1 DEF Grows
<1>5. t = [s3 EXCEPT !.vars[i].status = "Available"]
    BY <1>2 DEF CheckAssign
<1>6. Exec!RunAssign(x, a) = Exec!Cells(y, d)
    BY <1>2 DEF Exec!RunAssign
<1>7. o \in Nat
    <2>1. "own" \in Types
        BY DEF Types
    <2> QED BY <1>1, <2>1, ValueIs
<1> HIDE DEF s2, o, i
<1>8. s3 \in State /\ s3.vars \in Seq(Entry) /\ OnlyStatus(s2.vars, s3.vars)
    BY <1>1, <1>4, CheckExprGrows, VarsOf, ExprOnlyMoves
<1> HIDE DEF s3, t
<1>9. t.vars = w /\ Clean(s3)
    BY <1>5, <1>8 DEF Clean, State, t
<1>10. Goes(x, y) /\ Mirror(s3.vars, y.cells)
    BY <1>1, <1>4, <1>9, ExprGoes DEF s3
<1> HIDE DEF y, c
<1>11. y \in Run /\ y.cells \in Seq(Box) /\ Len(y.cells) = Len(s3.vars) /\ Len(s3.vars) = Len(s.vars)
    BY <1>1, <1>4, <1>8, <1>10, RunFields DEF Goes, OnlyStatus
<1>12. Alike(y.cells, c)
    BY <1>11, InvalidationsFade, FadedAlike DEF c
<1>13. InStep(s3.vars, c) /\ c \in Seq(Box)
    BY <1>8, <1>10, <1>11, <1>12, MirrorAlike DEF InStep, Alike
<1>14. i \in DOMAIN s3.vars
    BY <1>1, <1>2, <1>8, <1>11
<1> HIDE DEF d, w
<1>15. d \in Seq(Box) /\ InStep(w, d)
    BY <1>7, <1>8, <1>13, <1>14, Revived DEF d, w
<1> QED BY <1>6, <1>9, <1>10, <1>11, <1>15, CellsAre DEF StaysInStep, Goes, t

LEMMA StoreGoes ==
    ASSUME NEW s \in State, NEW x \in Run, InStep(s.vars, x.cells), NEW a \in Statement, a.tag = "store",
           \A n \in Mentioned(a.e) : Named(s.vars, n), Named(s.vars, a.name), a.name \notin Mentioned(a.e),
           NEW line \in Nat, Clean(CheckStore(s, a, line))
    PROVE  StaysInStep(x, Exec!RunStore(x, a), CheckStore(s, a, line).vars)
<1> DEFINE i == Find(s.vars, a.name)
           s1 == CheckMutation(s, a.name, line)
           place == CheckIdent(s1, a.name, FALSE, line)
           t == CheckStore(s, a, line)
           y == Exec!RunExpr(x, a.e, TRUE)
           z == Exec!Touch(y, i)
           to == z.cells[i].owner
           d == Stored(z.cells, i)
<1>1. /\ a.name \in Names /\ a.e \in Expr /\ s.vars \in Seq(Entry) /\ x.cells \in Seq(Box)
      /\ Mirror(s.vars, x.cells) /\ Len(x.cells) = Len(s.vars)
    BY RunFields DEF Statement, State, InStep
<1>2. Exec!Lookup(x.cells, a.name) = i /\ i \in DOMAIN s.vars /\ i # 0 /\ s.vars[i].name = a.name
    BY <1>1, LookupIs
<1>3. s1 \in State /\ s1.vars = s.vars
    BY <1>1, CheckMutationGrows, MutationChangesNothing DEF Grows
<1>4. t = CheckExpr(place, a.e, TRUE, line)
    BY DEF CheckStore
<1> HIDE DEF s1
<1>5. place \in State /\ Grows(place, t)
    BY <1>1, <1>3, <1>4, CheckIdentGrows, CheckExprGrows DEF Grows
<1>6. Clean(place)
    BY <1>5, CleanBefore
<1>7. place = s1 /\ s.vars[i].status # "Moved"
    BY <1>2, <1>3, <1>6, ReportIsNotClean DEF CheckIdent
<1> HIDE DEF place, t
<1>8. Goes(x, y) /\ Mirror(t.vars, y.cells)
    BY <1>1, <1>3, <1>4, <1>7, ExprGoes DEF t
<1>9. OnlyStatus(s.vars, t.vars) /\ t.vars \in Seq(Entry) /\ Untouched(s.vars, t.vars, Mentioned(a.e))
    BY <1>1, <1>3, <1>4, <1>5, <1>7, ExprOnlyMoves, ExprTouches, VarsOf
<1>10. y \in Run /\ y.cells \in Seq(Box) /\ Len(y.cells) = Len(t.vars)
    BY <1>1, <1>8, <1>9, RunFields DEF Goes, OnlyStatus
<1>11. i \in DOMAIN t.vars /\ i \in DOMAIN y.cells /\ t.vars[i].status # "Moved"
    <2>1. t.vars[i].status = s.vars[i].status
        BY <1>2, <1>9 DEF Untouched
    <2>2. i \in DOMAIN t.vars
        BY <1>1, <1>2, <1>9 DEF OnlyStatus
    <2>3. i \in DOMAIN y.cells
        <3> HIDE DEF y, i
        <3> QED BY <1>9, <1>10, <2>2
    <2> QED BY <1>7, <2>1, <2>2, <2>3
<1> HIDE DEF y, i
<1>12. ~y.cells[i].moved
    BY <1>8, <1>11 DEF Mirror
<1>13. z \in Run /\ z.cells = y.cells /\ (z.fault = "moved" => y.fault = "moved")
    BY <1>10, <1>11, <1>12, TouchIs
<1>14. Exec!RunStore(x, a) = Exec!Cells(z, d)
    <2>1. z = Exec!Touch(Exec!RunExpr(x, a.e, TRUE), i)
        BY DEF y
    <2> HIDE DEF z
    <2> QED BY <1>2, <2>1, StoreIs
<1> HIDE DEF z, to
<1>15. Alike(y.cells, d)
    <2>1. \A k \in DOMAIN y.cells : y.cells[k] \in Box
        BY <1>10
    <2>2. Alike(y.cells, y.cells)
        BY <1>10 DEF Alike
    <2>3. /\ Alike(y.cells, Exec!InvalidateAll(y.cells, i))
          /\ Alike(y.cells, InvalidateOthers(y.cells, to, i))
        BY <1>10, InvalidationsFade, FadedAlike
    <2> QED BY <1>13, <2>2, <2>3 DEF Stored, to
<1> HIDE DEF d
<1>16. d \in Seq(Box) /\ InStep(t.vars, d)
    BY <1>8, <1>9, <1>10, <1>15, MirrorAlike DEF InStep, Alike
<1> QED BY <1>8, <1>13, <1>14, <1>16, CellsAre DEF StaysInStep, Goes, t

LEMMA UseGoes ==
    ASSUME NEW s \in State, NEW x \in Run, InStep(s.vars, x.cells), NEW e \in Expr,
           \A n \in Mentioned(e) : Named(s.vars, n),
           NEW consume \in BOOLEAN, NEW line \in Nat, Clean(CheckExpr(s, e, consume, line))
    PROVE  StaysInStep(x, Exec!RunExpr(x, e, consume), CheckExpr(s, e, consume, line).vars)
<1>1. /\ Goes(x, Exec!RunExpr(x, e, consume))
      /\ Mirror(CheckExpr(s, e, consume, line).vars, Exec!RunExpr(x, e, consume).cells)
    BY ExprGoes DEF InStep
<1>2. Len(CheckExpr(s, e, consume, line).vars) = Len(s.vars)
    BY ExprOnlyMoves DEF OnlyStatus
<1> QED BY <1>1, <1>2 DEF Goes, StaysInStep, InStep

LEMMA ReturnGoes ==
    ASSUME NEW s \in State, NEW x \in Run, InStep(s.vars, x.cells), NEW a \in Statement, a.tag = "return_expr",
           \A n \in Mentioned(a.e) : Named(s.vars, n),
           NEW line \in Nat, Clean(CheckReturnExpr(s, a, line))
    PROVE  StaysInStep(x, Exec!RunReturn(x, a.e), CheckReturnExpr(s, a, line).vars)
<1> DEFINE consume == ~IsReference(ReturnType)
           s1 == CheckReturn(s, a.e, line)
           s2 == CheckExpr(s1, a.e, consume, line)
           t == CheckReturnExpr(s, a, line)
           y == Exec!RunExpr(x, a.e, consume)
<1>1. a.e \in Expr /\ consume \in BOOLEAN
    BY DEF Statement, IsReference
<1>2. s1 \in State /\ s1.vars = s.vars
    <2>1. \A code, n : Report(s, code, n, line).vars = s.vars
        BY DEF Report, State
    <2>2. s1.vars = s.vars
        BY <2>1 DEF CheckReturn, ReportIf
    <2> QED BY <1>1, <2>2, CheckReturnGrows DEF Grows
<1>3. t = [s2 EXCEPT !.terminated = TRUE]
    BY DEF CheckReturnExpr
<1> HIDE DEF s1
<1>4. s2 \in State
    BY <1>1, <1>2, CheckExprGrows DEF Grows
<1>5. t.vars = s2.vars /\ Clean(s2)
    <2> HIDE DEF s2, t
    <2> QED BY <1>3, <1>4 DEF Clean, State, t
<1>6. StaysInStep(x, y, s2.vars)
    BY <1>1, <1>2, <1>5, UseGoes
<1>7. Exec!RunReturn(x, a.e) = y \/ Exec!RunReturn(x, a.e) = Exec!Raise(y, "escape")
    BY SameReading DEF Exec!RunReturn
<1> HIDE DEF y, s2, t
<1>8. y \in Run /\ Exec!Raise(y, "escape") \in Run /\ Exec!Raise(y, "escape").cells = y.cells
      /\ (Exec!Raise(y, "escape").fault = "moved" => y.fault = "moved")
    BY <1>6 DEF StaysInStep, Exec!Raise, Run, Exec!Faults
<1> QED BY <1>5, <1>6, <1>7, <1>8 DEF StaysInStep, t

(* What a statement presupposes of the names it uses.                      *)
Declared(v, a) ==
    /\ \A n \in Mentions(a) : Named(v, n)
    /\ a.tag = "assign" => Named(v, a.name)
    /\ a.tag = "store" => a.name \notin Mentioned(a.e)

LEMMA SimpleGoes ==
    ASSUME NEW s \in State, NEW x \in Run, InStep(s.vars, x.cells), NEW a \in Statement, a.tag \in SimpleTags,
           Declared(s.vars, a), NEW line \in Nat, prog \in Seq(Statement), Clean(CheckSimple(s, a, line))
    PROVE  StaysInStep(x, Exec!RunSimple(x, a), CheckSimple(s, a, line).vars)
<1>1. CASE a.tag = "let"
    <2>1. \A n \in Mentioned(a.e) : Named(s.vars, n)
        BY <1>1 DEF Declared, Mentions
    <2> QED BY <1>1, <2>1, LetGoes DEF CheckSimple, Exec!RunSimple
<1>2. CASE a.tag = "assign"
    <2>1. (\A n \in Mentioned(a.e) : Named(s.vars, n)) /\ Named(s.vars, a.name)
        BY <1>2 DEF Declared, Mentions
    <2> QED BY <1>2, <2>1, AssignGoes DEF CheckSimple, Exec!RunSimple
<1>3. CASE a.tag = "store"
    <2>1. (\A n \in Mentioned(a.e) : Named(s.vars, n)) /\ Named(s.vars, a.name) /\ a.name \notin Mentioned(a.e)
        BY <1>3 DEF Declared, Mentions
    <2> QED BY <1>3, <2>1, StoreGoes DEF CheckSimple, Exec!RunSimple
<1>4. CASE a.tag = "use"
    <2>1. (\A n \in Mentioned(a.e) : Named(s.vars, n)) /\ a.e \in Expr
        BY <1>4 DEF Declared, Mentions, Statement
    <2> QED BY <1>4, <2>1, UseGoes DEF CheckSimple, Exec!RunSimple
<1>5. CASE a.tag = "return_expr"
    <2>1. \A n \in Mentioned(a.e) : Named(s.vars, n)
        BY <1>5 DEF Declared, Mentions
    <2> QED BY <1>5, <2>1, ReturnGoes DEF CheckSimple, Exec!RunSimple
<1>6. CASE a.tag \notin {"let", "assign", "store", "use", "return_expr"}
    <2>1. Exec!RunSimple(x, a) = x
        BY <1>6 DEF Exec!RunSimple
    <2>2. CheckSimple(s, a, line).vars = s.vars
        BY <1>6 DEF CheckSimple, State
    <2> QED BY <2>1, <2>2 DEF StaysInStep
<1> QED BY <1>1, <1>2, <1>3, <1>4, <1>5, <1>6

-----------------------------------------------------------------------------
(***************************************************************************)
(* References.  A reference of the run to one of its variables is either   *)
(* out: it is good, and the counters of its owner claim it, so that the    *)
(* checker refuses whatever would end it; or it was given back, and is     *)
(* not mentioned from this line on.  A temporary is always out.  One that  *)
(* came from the caller is good.                                           *)
(***************************************************************************)
Claimed(v, o, ty) == IF ty = "mut" THEN v[o].mutBorrow ELSE v[o].shared > 0
Over(v, k) == k <= Len(v) /\ v[k].borrowEnd < 0
Alive(p, v, c, line) ==
    \A k \in DOMAIN c :
        /\ c[k].owner = 0 => c[k].valid
        /\ c[k].owner # 0 /\ IsReference(c[k].ty) =>
               IF Over(v, k) THEN LastUse(p, v[k].name) < line
               ELSE c[k].valid /\ c[k].owner \in DOMAIN v /\ Claimed(v, c[k].owner, c[k].ty)
StillUsed(p, n, line) == line <= LastUse(p, n)

(* The same variables with the same referents.                             *)
SameRefs(c, d) ==
    /\ Len(d) = Len(c)
    /\ \A k \in DOMAIN c : d[k].owner = c[k].owner /\ d[k].ty = c[k].ty /\ d[k].name = c[k].name

(* The counters have not gone down.                                        *)
ClaimsMore(v, w) ==
    /\ Len(w) = Len(v)
    /\ \A k \in DOMAIN v : /\ w[k].name = v[k].name /\ w[k].borrowEnd = v[k].borrowEnd
                           /\ v[k].shared > 0 => w[k].shared > 0
                           /\ v[k].mutBorrow => w[k].mutBorrow

(* A step of the run that neither ended nor used a reference wrongly.      *)
Keeps(p, x, y, w, line) ==
    /\ y \in Run /\ y.fault = x.fault
    /\ SameRefs(x.cells, y.cells) /\ Alive(p, w, y.cells, line)

LEMMA SameRefsTransitive ==
    ASSUME NEW b \in Seq(Box), NEW c \in Seq(Box), NEW d \in Seq(Box), SameRefs(b, c), SameRefs(c, d)
    PROVE  SameRefs(b, d)
<1>1. DOMAIN b = DOMAIN c
    BY DEF SameRefs
<1> QED BY <1>1 DEF SameRefs

LEMMA LastUseType ==
    ASSUME NEW p \in Seq(Statement), NEW n
    PROVE  LastUse(p, n) \in Nat
<1>1. LastUse(p, n) \in (DOMAIN p) \cup {0}
    BY ExtremeType DEF LastUse
<1> QED BY <1>1

LEMMA AliveMore ==
    ASSUME NEW p, NEW v \in Seq(Entry), NEW w \in Seq(Entry), NEW c \in Seq(Box), NEW line,
           Alive(p, v, c, line), ClaimsMore(v, w)
    PROVE  Alive(p, w, c, line)
<1> SUFFICES ASSUME NEW k \in DOMAIN c, c[k].owner # 0, IsReference(c[k].ty)
             PROVE  IF Over(w, k) THEN LastUse(p, w[k].name) < line
                    ELSE c[k].valid /\ c[k].owner \in DOMAIN w /\ Claimed(w, c[k].owner, c[k].ty)
    BY DEF Alive
<1>1. Len(w) = Len(v) /\ DOMAIN w = DOMAIN v
    BY DEF ClaimsMore
<1>2. k <= Len(v) => k \in DOMAIN v
    OBVIOUS
<1>3. CASE Over(w, k)
    <2>1. Over(v, k) /\ w[k].name = v[k].name
        BY <1>1, <1>2, <1>3 DEF Over, ClaimsMore
    <2> QED BY <1>3, <2>1 DEF Alive
<1>4. CASE ~Over(w, k)
    <2>1. ~Over(v, k)
        BY <1>1, <1>2, <1>4 DEF Over, ClaimsMore
    <2>2. c[k].valid /\ c[k].owner \in DOMAIN v /\ Claimed(v, c[k].owner, c[k].ty)
        BY <2>1 DEF Alive
    <2>3. Claimed(w, c[k].owner, c[k].ty)
        BY <2>2 DEF Claimed, ClaimsMore
    <2> QED BY <1>1, <1>4, <2>2, <2>3
<1> QED BY <1>3, <1>4

LEMMA OnlyStatusClaims ==
    ASSUME NEW v \in Seq(Entry), NEW w \in Seq(Entry), OnlyStatus(v, w)
    PROVE  ClaimsMore(v, w) /\ ClaimsMore(w, v)
<1>1. DOMAIN w = DOMAIN v
    BY DEF OnlyStatus
<1> QED BY <1>1 DEF OnlyStatus, Fixed, ClaimsMore

LEMMA CountedClaims ==
    ASSUME NEW v \in Seq(Entry), NEW w, NEW i, NEW m \in BOOLEAN, Counted(v, w, i, m)
    PROVE  /\ ClaimsMore(v, w)
           /\ i \in DOMAIN v => Claimed(w, i, RefType(m))
<1>1. ASSUME NEW k \in DOMAIN v
      PROVE  /\ w[k].name = v[k].name /\ w[k].borrowEnd = v[k].borrowEnd
             /\ v[k].shared > 0 => w[k].shared > 0
             /\ v[k].mutBorrow => w[k].mutBorrow
             /\ k = i => Claimed(w, k, RefType(m))
    <2>1. v[k].shared \in Nat /\ Fixed(v[k], w[k])
        BY EntryFields DEF Counted
    <2>2. w[k].shared = IF k = i /\ ~m THEN v[k].shared + 1 ELSE v[k].shared
        BY DEF Counted
    <2>3. w[k].mutBorrow = (v[k].mutBorrow \/ (k = i /\ m))
        BY DEF Counted
    <2>4. w[k].name = v[k].name /\ w[k].borrowEnd = v[k].borrowEnd
        BY <2>1 DEF Fixed
    <2>5. (v[k].shared > 0 => w[k].shared > 0) /\ (k = i /\ ~m => w[k].shared > 0)
        BY <2>1, <2>2
    <2>6. (v[k].mutBorrow => w[k].mutBorrow) /\ (k = i /\ m => w[k].mutBorrow)
        BY <2>3, Zenon
    <2>7. k = i => Claimed(w, k, RefType(m))
        BY <2>5, <2>6 DEF Claimed, RefType
    <2> QED BY <2>4, <2>5, <2>6, <2>7
<1> QED BY <1>1 DEF Counted, ClaimsMore

(* Cells that differ in what was moved only.                               *)
LEMMA AliveSame ==
    ASSUME NEW p, NEW v, NEW c \in Seq(Box), NEW d \in Seq(Box), NEW line, Alive(p, v, c, line),
           Len(d) = Len(c),
           \A k \in DOMAIN c : d[k].owner = c[k].owner /\ d[k].ty = c[k].ty /\ d[k].valid = c[k].valid
    PROVE  Alive(p, v, d, line)
<1>1. DOMAIN d = DOMAIN c
    OBVIOUS
<1> QED BY <1>1 DEF Alive

(* A reference that its owner does not claim was given back.               *)
LEMMA UnclaimedIsOver ==
    ASSUME NEW p, NEW v, NEW c, NEW line, Alive(p, v, c, line), NEW k \in DOMAIN c, c[k].owner # 0,
           IsReference(c[k].ty), ~Claimed(v, c[k].owner, c[k].ty)
    PROVE  Over(v, k)
BY DEF Alive

(* What ends references that were given back leaves the others good.       *)
LEMMA FadedKeeps ==
    ASSUME NEW p, NEW v, NEW c \in Seq(Box), NEW d, NEW i, NEW which, NEW line,
           Alive(p, v, c, line), Faded(c, d, i, which), i # 0,
           \A k \in DOMAIN c : k \in which /\ c[k].owner = i /\ IsReference(c[k].ty) => Over(v, k)
    PROVE  Alive(p, v, d, line) /\ SameRefs(c, d) /\ d \in Seq(Box)
<1>1. d \in Seq(Box) /\ Len(d) = Len(c) /\ DOMAIN d = DOMAIN c
    BY DEF Faded
<1>2. ASSUME NEW k \in DOMAIN c
      PROVE  /\ d[k].owner = c[k].owner /\ d[k].ty = c[k].ty /\ d[k].name = c[k].name
             /\ d[k].valid = c[k].valid \/ (k \in which /\ c[k].owner = i /\ IsReference(c[k].ty))
    <2>1. c[k] \in Box
        OBVIOUS
    <2>2. CASE c[k].owner = i /\ IsReference(c[k].ty) /\ k \in which
        <3>1. d[k] = [c[k] EXCEPT !.valid = FALSE]
            BY <2>2 DEF Faded
        <3> QED BY <2>1, <2>2, <3>1 DEF Box
    <2>3. CASE ~(c[k].owner = i /\ IsReference(c[k].ty) /\ k \in which)
        <3>1. d[k] = c[k]
            BY <2>3 DEF Faded
        <3> QED BY <3>1
    <2> QED BY <2>2, <2>3
<1>3. SameRefs(c, d)
    BY <1>1, <1>2 DEF SameRefs
<1>4. ASSUME NEW k \in DOMAIN d
      PROVE  /\ d[k].owner = 0 => d[k].valid
             /\ d[k].owner # 0 /\ IsReference(d[k].ty) =>
                    IF Over(v, k) THEN LastUse(p, v[k].name) < line
                    ELSE d[k].valid /\ d[k].owner \in DOMAIN v /\ Claimed(v, d[k].owner, d[k].ty)
    <2>1. k \in DOMAIN c
        BY <1>1
    <2>2. CASE k \in which /\ c[k].owner = i /\ IsReference(c[k].ty)
        BY <1>2, <2>1, <2>2 DEF Alive
    <2>3. CASE d[k].valid = c[k].valid
        BY <1>2, <2>1, <2>3 DEF Alive
    <2> QED BY <1>2, <2>1, <2>2, <2>3
<1>5. Alive(p, v, d, line)
    BY <1>4 DEF Alive
<1> QED BY <1>1, <1>3, <1>5

(* A variable whose name is still to be used is good to use.               *)
LEMMA GoodToUse ==
    ASSUME NEW p \in Seq(Statement), NEW line \in Nat, NEW v \in Seq(Entry), NEW x \in Run, NEW i \in DOMAIN x.cells,
           Alive(p, v, x.cells, line), ~x.cells[i].moved,
           Over(v, i) => StillUsed(p, v[i].name, line)
    PROVE  Exec!Touch(x, i) = x
<1>1. LastUse(p, v[i].name) \in Int
    BY LastUseType
<1>2. IsReference(x.cells[i].ty) => x.cells[i].valid
    <2> DEFINE l == LastUse(p, v[i].name)
    <2>1. ~(Over(v, i) /\ l < line)
        <3> HIDE DEF l
        <3>1. l \in Int /\ (Over(v, i) => line <= l)
            BY <1>1 DEF l, StillUsed
        <3> QED BY <3>1
    <2> QED BY <2>1 DEF Alive
<1> QED BY <1>2, SameReading DEF Exec!Touch

-----------------------------------------------------------------------------
(* Expressions keep the references that are out.                           *)
LEMMA BorrowKeeps ==
    ASSUME NEW s \in State, NEW x \in Run, Mirror(s.vars, x.cells), NEW n \in Names, Named(s.vars, n),
           NEW m \in BOOLEAN, NEW line \in Nat, Clean(CreateBorrow(s, n, m, line)),
           NEW p \in Seq(Statement), Alive(p, s.vars, x.cells, line), StillUsed(p, n, line)
    PROVE  Keeps(p, x, Exec!Borrow(x, Exec!Lookup(x.cells, n), m), s.vars, line)
<1> DEFINE i == Find(s.vars, n)
           c == IF m THEN Exec!InvalidateAll(x.cells, i) ELSE Exec!InvalidateMut(x.cells, i)
           v == s.vars
<1>1. v \in Seq(Entry) /\ x.cells \in Seq(Box)
    BY RunFields DEF State
<1>2. /\ Exec!Lookup(x.cells, n) = i /\ i \in DOMAIN v /\ i \in DOMAIN x.cells /\ i # 0
      /\ v[i].name = n
    BY <1>1, LookupIs
<1>3. v[i].status # "Moved" /\ ~v[i].mutBorrow /\ (m => v[i].shared = 0)
    BY <1>1, <1>2, BorrowGranted, LenderLends DEF Lendable
<1>4. ~x.cells[i].moved
    BY <1>1, <1>2, <1>3 DEF Mirror
<1>5. Exec!Touch(x, i) = x
    <2> HIDE DEF i, v
    <2> QED BY <1>1, <1>2, <1>4, GoodToUse DEF v
<1>6. Exec!Borrow(x, Exec!Lookup(x.cells, n), m) = Exec!Cells(x, c)
    BY <1>2, <1>5 DEF Exec!Borrow
<1>7. ~Claimed(v, i, "mut") /\ (m => ~Claimed(v, i, "shr"))
    BY <1>3 DEF Claimed
<1> HIDE DEF i, v
<1>8. Alive(p, v, c, line) /\ SameRefs(x.cells, c) /\ c \in Seq(Box)
    <2>1. CASE m
        <3>1. Faded(x.cells, c, i, DOMAIN x.cells)
            BY <1>1, <2>1, InvalidationsFade
        <3>2. \A k \in DOMAIN x.cells : x.cells[k].owner = i /\ IsReference(x.cells[k].ty) => Over(v, k)
            BY <1>2, <1>7, <2>1, UnclaimedIsOver DEF IsReference, v
        <3> HIDE DEF c
        <3> QED BY <1>1, <1>2, <3>1, <3>2, FadedKeeps DEF v
    <2>2. CASE ~m
        <3> DEFINE which == {k \in DOMAIN x.cells : x.cells[k].ty = "mut"}
        <3>1. Faded(x.cells, c, i, which)
            BY <1>1, <2>2, InvalidationsFade
        <3>2. \A k \in DOMAIN x.cells :
                k \in which /\ x.cells[k].owner = i /\ IsReference(x.cells[k].ty) => Over(v, k)
            BY <1>2, <1>7, UnclaimedIsOver DEF v
        <3> HIDE DEF c, which
        <3> QED BY <1>1, <1>2, <3>1, <3>2, FadedKeeps DEF v
    <2> QED BY <2>1, <2>2
<1> HIDE DEF c
<1>9. Exec!Cells(x, c) \in Run /\ Exec!Cells(x, c).cells = c /\ Exec!Cells(x, c).fault = x.fault
    BY <1>8, CellsAre
<1> QED BY <1>6, <1>8, <1>9 DEF Keeps, v

(* A cell that is marked as moved.                                         *)
LEMMA MovedRefs ==
    ASSUME NEW p, NEW v, NEW c \in Seq(Box), NEW i \in DOMAIN c, NEW line, Alive(p, v, c, line),
           NEW d, d = [c EXCEPT ![i].moved = TRUE]
    PROVE  d \in Seq(Box) /\ SameRefs(c, d) /\ Alive(p, v, d, line)
<1> DEFINE b == [c[i] EXCEPT !.moved = TRUE]
<1>1. c[i] \in Box
    OBVIOUS
<1>2. b \in Box /\ b.owner = c[i].owner /\ b.ty = c[i].ty /\ b.name = c[i].name /\ b.valid = c[i].valid
    BY <1>1 DEF Box
<1>3. d = [c EXCEPT ![i] = b]
    OBVIOUS
<1> HIDE DEF b
<1> DEFINE g == [c EXCEPT ![i] = b]
<1>4. g \in Seq(Box) /\ Len(g) = Len(c) /\ \A k \in DOMAIN c : g[k] = IF k = i THEN b ELSE c[k]
    BY <1>1, <1>2
<1> HIDE DEF g
<1>5. d = g
    BY <1>3 DEF g
<1>6. \A k \in DOMAIN c : /\ d[k].owner = c[k].owner /\ d[k].ty = c[k].ty /\ d[k].name = c[k].name
                          /\ d[k].valid = c[k].valid
    BY <1>2, <1>4, <1>5
<1>7. d \in Seq(Box) /\ SameRefs(c, d)
    BY <1>4, <1>5, <1>6 DEF SameRefs
<1>8. Alive(p, v, d, line)
    BY <1>4, <1>5, <1>6, AliveSame
<1> QED BY <1>7, <1>8

LEMMA IdentKeeps ==
    ASSUME NEW s \in State, NEW x \in Run, Mirror(s.vars, x.cells), NEW n \in Names, Named(s.vars, n),
           NEW consume \in BOOLEAN, NEW line \in Nat, Clean(CheckIdent(s, n, consume, line)),
           NEW y, y = IF consume THEN Exec!Take(x, Exec!Lookup(x.cells, n))
                      ELSE Exec!Touch(x, Exec!Lookup(x.cells, n)),
           NEW p \in Seq(Statement), Alive(p, s.vars, x.cells, line), StillUsed(p, n, line)
    PROVE  Keeps(p, x, y, CheckIdent(s, n, consume, line).vars, line)
<1> DEFINE i == Find(s.vars, n)
           v == s.vars
           t == CheckIdent(s, n, consume, line)
<1>1. v \in Seq(Entry) /\ x.cells \in Seq(Box) /\ t.vars \in Seq(Entry) /\ OnlyStatus(v, t.vars)
    BY RunFields, CheckIdentGrows, VarsOf, IdentOnlyMoves DEF State
<1>2. /\ Exec!Lookup(x.cells, n) = i /\ i \in DOMAIN v /\ i \in DOMAIN x.cells /\ i # 0
      /\ v[i].name = n
    BY <1>1, LookupIs
<1>3. v[i].status # "Moved" /\ (consume /\ ~IsCopy(v[i].ty) => ~Borrowed(v[i]))
    BY <1>2, ReportIsNotClean DEF CheckIdent
<1>4. ~x.cells[i].moved /\ x.cells[i].ty = v[i].ty
    BY <1>1, <1>2, <1>3 DEF Mirror
<1>5. Exec!Touch(x, i) = x
    <2> HIDE DEF i, v
    <2> QED BY <1>1, <1>2, <1>4, GoodToUse DEF v
<1>6. ClaimsMore(v, t.vars)
    BY <1>1, OnlyStatusClaims
<1>7. CASE ~consume \/ IsCopy(v[i].ty)
    <2>1. y = x
        BY <1>2, <1>4, <1>5, <1>7, SameReading DEF Exec!Take
    <2>2. SameRefs(x.cells, x.cells)
        BY DEF SameRefs
    <2> HIDE DEF t
    <2>3. Alive(p, t.vars, x.cells, line)
        BY <1>1, <1>6, AliveMore
    <2> QED BY <2>1, <2>2, <2>3 DEF Keeps, t
<1>8. CASE consume /\ ~IsCopy(v[i].ty)
    <2> DEFINE c == Exec!InvalidateAll(x.cells, i)
               d == [c EXCEPT ![i].moved = TRUE]
    <2>1. y = Exec!Cells(x, d)
        BY <1>2, <1>4, <1>5, <1>8, SameReading DEF Exec!Take
    <2>2. Faded(x.cells, c, i, DOMAIN x.cells)
        BY <1>1, InvalidationsFade
    <2>3. ~Claimed(v, i, "mut") /\ ~Claimed(v, i, "shr")
        BY <1>3, <1>8 DEF Claimed, Borrowed
    <2> HIDE DEF i, v, t, c
    <2>4. \A k \in DOMAIN x.cells : x.cells[k].owner = i /\ IsReference(x.cells[k].ty) => Over(v, k)
        BY <1>2, <2>3, UnclaimedIsOver DEF IsReference, v
    <2>5. Alive(p, v, c, line) /\ SameRefs(x.cells, c) /\ c \in Seq(Box)
        BY <1>1, <1>2, <2>2, <2>4, FadedKeeps DEF v
    <2>6. i \in DOMAIN c
        BY <1>2, <2>5 DEF SameRefs
    <2>7. d \in Seq(Box) /\ SameRefs(c, d) /\ Alive(p, v, d, line)
        BY <2>5, <2>6, MovedRefs
    <2> HIDE DEF d
    <2>8. Alive(p, t.vars, d, line) /\ SameRefs(x.cells, d)
        BY <1>1, <1>6, <2>5, <2>7, AliveMore, SameRefsTransitive
    <2>9. Exec!Cells(x, d) \in Run /\ Exec!Cells(x, d).cells = d /\ Exec!Cells(x, d).fault = x.fault
        BY <2>7, CellsAre
    <2> QED BY <2>1, <2>8, <2>9 DEF Keeps, t
<1> QED BY <1>7, <1>8

LEMMA AddrKeeps ==
    ASSUME NEW s \in State, NEW x \in Run, Mirror(s.vars, x.cells), NEW n \in Names, Named(s.vars, n),
           NEW m \in BOOLEAN, NEW line \in Nat, Clean(CheckAddr(s, n, m, line)),
           NEW p \in Seq(Statement), Alive(p, s.vars, x.cells, line), StillUsed(p, n, line)
    PROVE  Keeps(p, x, Exec!Borrow(x, Exec!Lookup(x.cells, n), m), CheckAddr(s, n, m, line).vars, line)
<1> DEFINE w == CheckAddr(s, n, m, line).vars
           y == Exec!Borrow(x, Exec!Lookup(x.cells, n), m)
<1>1. Clean(CreateBorrow(s, n, m, line))
    BY CreateBorrowGrows DEF CheckAddr, Clean, Grows, State
<1>2. Keeps(p, x, y, s.vars, line)
    BY <1>1, BorrowKeeps
<1>3. s.vars \in Seq(Entry) /\ w \in Seq(Entry) /\ ClaimsMore(s.vars, w)
    BY CheckAddrGrows, VarsOf, AddrOnlyMoves, OnlyStatusClaims DEF State
<1> HIDE DEF w, y
<1>4. Alive(p, w, y.cells, line)
    BY <1>2, <1>3, AliveMore, RunFields DEF Keeps
<1> QED BY <1>2, <1>4 DEF Keeps, w, y

LEMMA SimpleExprKeeps ==
    ASSUME NEW s \in State, NEW x \in Run, Mirror(s.vars, x.cells), NEW e \in SimpleExpr,
           \A n \in SimpleMentioned(e) : Named(s.vars, n),
           NEW consume \in BOOLEAN, NEW line \in Nat, Clean(CheckSimpleExpr(s, e, consume, line)),
           NEW p \in Seq(Statement), Alive(p, s.vars, x.cells, line),
           \A n \in SimpleMentioned(e) : StillUsed(p, n, line)
    PROVE  Keeps(p, x, Exec!RunSimpleExpr(x, e, consume), CheckSimpleExpr(s, e, consume, line).vars, line)
<1> DEFINE y == Exec!RunSimpleExpr(x, e, consume)
           t == CheckSimpleExpr(s, e, consume, line)
<1>1. CASE e.tag = "literal"
    <2>1. y = x /\ t = s
        BY <1>1 DEF Exec!RunSimpleExpr, CheckSimpleExpr
    <2> QED BY <2>1 DEF Keeps, SameRefs
<1>2. CASE e.tag = "ident"
    <2>1. e.name \in Names /\ Named(s.vars, e.name) /\ StillUsed(p, e.name, line)
        BY <1>2 DEF SimpleExpr, SimpleMentioned
    <2>2. t = CheckIdent(s, e.name, consume, line)
        BY <1>2 DEF CheckSimpleExpr
    <2>3. y = IF consume THEN Exec!Take(x, Exec!Lookup(x.cells, e.name))
              ELSE Exec!Touch(x, Exec!Lookup(x.cells, e.name))
        BY <1>2 DEF Exec!RunSimpleExpr
    <2> HIDE DEF y
    <2> QED BY <2>1, <2>2, <2>3, IdentKeeps DEF y
<1>3. CASE e.tag = "addr"
    <2>1. e.name \in Names /\ Named(s.vars, e.name) /\ StillUsed(p, e.name, line) /\ e.mutable \in BOOLEAN
        BY <1>3 DEF SimpleExpr, SimpleMentioned
    <2>2. t = CheckAddr(s, e.name, e.mutable, line)
        BY <1>3 DEF CheckSimpleExpr
    <2>3. y = Exec!Borrow(x, Exec!Lookup(x.cells, e.name), e.mutable)
        BY <1>3 DEF Exec!RunSimpleExpr
    <2> HIDE DEF y
    <2> QED BY <2>1, <2>2, <2>3, AddrKeeps DEF y
<1> QED BY <1>1, <1>2, <1>3 DEF SimpleExpr

(* The temporary of an argument is good as long as its owner claims it.    *)
Backed(v, b) ==
    /\ b.name = NoName /\ b.valid
    /\ b.owner # 0 => IsReference(b.ty) /\ b.owner \in DOMAIN v /\ Claimed(v, b.owner, b.ty)

LEMMA TemporaryAlive ==
    ASSUME NEW p, NEW v \in Seq(Entry), NEW c \in Seq(Box), NEW b \in Box, NEW line, Alive(p, v, c, line),
           Len(v) <= Len(c), Backed(v, b)
    PROVE  Alive(p, v, Append(c, b), line)
<1> DEFINE d == Append(c, b)
           n == Len(c)
<1>1. /\ d \in Seq(Box) /\ Len(d) = n + 1 /\ n \in Nat /\ Len(v) \in Nat /\ Len(v) <= n
      /\ \A k \in 1..n : d[k] = c[k] /\ k \in DOMAIN c
      /\ d[n + 1] = b
    OBVIOUS
<1> HIDE DEF d, n
<1>2. ASSUME NEW k \in DOMAIN d
      PROVE  /\ d[k].owner = 0 => d[k].valid
             /\ d[k].owner # 0 /\ IsReference(d[k].ty) =>
                    IF Over(v, k) THEN LastUse(p, v[k].name) < line
                    ELSE d[k].valid /\ d[k].owner \in DOMAIN v /\ Claimed(v, d[k].owner, d[k].ty)
    <2>1. k \in 1..n \/ k = n + 1
        BY <1>1
    <2>2. CASE k \in 1..n
        <3>1. d[k] = c[k] /\ k \in DOMAIN c
            BY <1>1, <2>2
        <3> QED BY <3>1 DEF Alive
    <2>3. CASE k = n + 1
        <3>1. d[k] = b /\ ~Over(v, k)
            BY <1>1, <2>3 DEF Over
        <3> QED BY <3>1 DEF Backed
    <2> QED BY <2>1, <2>2, <2>3
<1> QED BY <1>2 DEF Alive, d

(* Borrows given to a call outlive their argument.                         *)
(* A reference is taken of an argument where the function wants one.       *)
ArgPassedOn(a) == a.e.tag = "addr" => IsReference(a.param)
Extends(c, d) ==
    /\ Len(c) <= Len(d)
    /\ \A k \in DOMAIN c : d[k].owner = c[k].owner /\ d[k].ty = c[k].ty /\ d[k].name = c[k].name
KeepsMore(p, x, y, w, line) ==
    /\ y \in Run /\ y.fault = x.fault /\ Extends(x.cells, y.cells)
    /\ Alive(p, w, y.cells, line)

LEMMA ArgKeeps ==
    ASSUME NEW s \in State, NEW x \in Run, Mirror(s.vars, x.cells), NEW a \in Argument,
           \A n \in SimpleMentioned(a.e) : Named(s.vars, n),
           NEW line \in Nat, Clean(CheckArg(s, a, line)), ArgPassedOn(a),
           NEW p \in Seq(Statement), Alive(p, s.vars, x.cells, line),
           \A n \in SimpleMentioned(a.e) : StillUsed(p, n, line)
    PROVE  KeepsMore(p, x, Exec!Temporary(x, a), CheckArg(s, a, line).vars, line)
<1> DEFINE consume == ~IsReference(a.param)
           y == Exec!RunSimpleExpr(x, a.e, consume)
           t == CheckArg(s, a, line)
           cell == IF a.e.tag = "addr"
                   THEN Exec!NewCell(NoName, RefType(a.e.mutable), Exec!Lookup(x.cells, a.e.name), TRUE)
                   ELSE Exec!NewCell(NoName, "copy", 0, TRUE)
<1>1. /\ s.vars \in Seq(Entry) /\ x.cells \in Seq(Box) /\ a.e \in SimpleExpr /\ consume \in BOOLEAN
      /\ t.vars \in Seq(Entry) /\ Len(t.vars) = Len(s.vars)
    BY RunFields, ArgNames DEF State, Argument, IsReference
<1>2. Exec!Temporary(x, a) = Exec!Cells(y, Append(y.cells, cell))
    BY SameReading DEF Exec!Temporary
<1>3. Keeps(p, x, y, t.vars, line) /\ cell \in Box /\ Backed(t.vars, cell)
    <2>1. CASE a.e.tag # "addr"
        <3>1. t = CheckSimpleExpr(s, a.e, consume, line)
            BY <2>1 DEF CheckArg, IsDirect
        <3>2. Keeps(p, x, y, t.vars, line)
            BY <1>1, <3>1, SimpleExprKeeps
        <3>3. "copy" \in Types /\ 0 \in Nat
            BY DEF Types
        <3>4. cell = NewBox(NoName, "copy", 0) /\ NewBox(NoName, "copy", 0) \in Box
            BY <2>1, <3>3, NewCellIs
        <3> HIDE DEF cell
        <3> QED BY <3>2, <3>4 DEF NewBox, Backed
    <2>2. CASE a.e.tag = "addr"
        <3> DEFINE n == a.e.name
                   m == a.e.mutable
                   i == Find(s.vars, n)
        <3>0. IsDirect(a)
            BY <2>2 DEF IsDirect, ArgPassedOn
        <3>1. n \in Names /\ Named(s.vars, n) /\ m \in BOOLEAN /\ StillUsed(p, n, line)
            BY <1>1, <2>2 DEF SimpleExpr, SimpleMentioned
        <3>2. CreateBorrow(s, n, m, line) \in State
            BY <3>1, CreateBorrowGrows DEF Grows
        <3>3. t = CreateBorrow(s, n, m, line)
            BY <3>0, <3>2, ReportIsNotClean DEF CheckArg
        <3>4. y = Exec!Borrow(x, Exec!Lookup(x.cells, n), m)
            BY <2>2 DEF Exec!RunSimpleExpr
        <3>5. Keeps(p, x, y, s.vars, line)
            BY <3>1, <3>3, <3>4, BorrowKeeps
        <3>6. i \in DOMAIN s.vars /\ i # 0 /\ Exec!Lookup(x.cells, n) = i
            BY <1>1, <3>1, LookupIs
        <3>7. Lender(s.vars, n, m) = i /\ t.vars = Lent(s.vars, i, m)
            BY <3>1, <3>3, <3>6, BorrowGranted, BorrowIs
        <3>8. cell = Exec!NewCell(NoName, RefType(m), i, TRUE)
            BY <2>2, <3>6
        <3> HIDE DEF cell, i, n, m, y, t
        <3>9. Counted(s.vars, t.vars, i, m)
            <4>1. i \in 0..Len(s.vars)
                BY <1>1, <3>6
            <4> QED BY <1>1, <3>1, <3>7, <4>1, LentIs
        <3>10. ClaimsMore(s.vars, t.vars) /\ Claimed(t.vars, i, RefType(m))
            BY <1>1, <3>1, <3>6, <3>9, CountedClaims
        <3>11. Alive(p, t.vars, y.cells, line)
            BY <1>1, <3>5, <3>10, AliveMore, RunFields DEF Keeps
        <3>12. i \in Nat /\ RefType(m) \in Types /\ IsReference(RefType(m)) /\ i \in DOMAIN t.vars
            BY <1>1, <3>6 DEF RefType, Types, IsReference
        <3>13. cell = NewBox(NoName, RefType(m), i) /\ cell \in Box
            BY <3>8, <3>12, NewCellIs
        <3>14. cell.name = NoName /\ cell.owner = i /\ cell.ty = RefType(m) /\ cell.valid
            BY <3>13 DEF NewBox
        <3> QED BY <3>5, <3>10, <3>11, <3>12, <3>13, <3>14 DEF Keeps, Backed
    <2> QED BY <2>1, <2>2
<1> HIDE DEF cell, y, t
<1>4. y \in Run /\ y.cells \in Seq(Box) /\ Len(y.cells) = Len(x.cells) /\ Len(t.vars) <= Len(y.cells)
    BY <1>1, <1>3, RunFields DEF Keeps, SameRefs, Mirror
<1> DEFINE d == Append(y.cells, cell)
<1>5. Alive(p, t.vars, d, line)
    BY <1>1, <1>3, <1>4, TemporaryAlive DEF Keeps
<1>6. d \in Seq(Box) /\ Len(d) = Len(x.cells) + 1 /\ \A k \in DOMAIN x.cells : d[k] = y.cells[k]
    BY <1>3, <1>4
<1>7. Exec!Temporary(x, a) = Exec!Cells(y, d)
    BY <1>2
<1> HIDE DEF d
<1>8. Exec!Cells(y, d) \in Run /\ Exec!Cells(y, d).cells = d /\ Exec!Cells(y, d).fault = y.fault
    BY <1>4, <1>6, CellsAre
<1>9. Extends(x.cells, d)
    BY <1>1, <1>3, <1>6 DEF Keeps, SameRefs, Extends
<1> QED BY <1>3, <1>5, <1>7, <1>8, <1>9 DEF Keeps, KeepsMore, t

(* A temporary is good to use.                                             *)
LEMMA GoodTemporary ==
    ASSUME NEW p, NEW v \in Seq(Entry), NEW x \in Run, NEW k \in DOMAIN x.cells, NEW line,
           Alive(p, v, x.cells, line), k > Len(v), ~x.cells[k].moved
    PROVE  Exec!Touch(x, k) = x
<1>1. ~Over(v, k)
    <2>1. Len(v) \in Nat /\ k \in Nat
        BY RunFields
    <2> QED BY <2>1 DEF Over
<1>2. IsReference(x.cells[k].ty) => x.cells[k].valid
    BY <1>1 DEF Alive
<1> QED BY <1>2, SameReading DEF Exec!Touch

LEMMA ArgFixes ==
    ASSUME NEW s \in State, NEW a \in Argument, NEW line \in Nat
    PROVE  \A k \in DOMAIN s.vars : CheckArg(s, a, line).vars[k].borrowEnd = s.vars[k].borrowEnd
<1> DEFINE t == CheckArg(s, a, line)
           u == Lent(s.vars, LentFrom(s.vars, a), LentMut(a))
<1>1. s.vars \in Seq(Entry)
    BY DEF State
<1>2. OnlyStatus(u, t.vars) /\ LentMut(a) \in BOOLEAN /\ LentFrom(s.vars, a) \in 0..Len(s.vars)
    BY ArgumentLends DEF Lendable
<1>3. Counted(s.vars, u, LentFrom(s.vars, a), LentMut(a))
    BY <1>1, <1>2, LentIs
<1> HIDE DEF t, u
<1>4. DOMAIN u = DOMAIN s.vars
    BY <1>1, <1>3 DEF Counted
<1> QED BY <1>2, <1>3, <1>4 DEF OnlyStatus, Counted, Fixed, t

(* After a call its temporaries are gone, and what was borrowed for it.    *)
SameEnds(v, w) == Len(w) = Len(v) /\ \A k \in DOMAIN v : w[k].borrowEnd = v[k].borrowEnd

LEMMA SameEndsTransitive ==
    ASSUME NEW u \in Seq(Entry), NEW v \in Seq(Entry), NEW w \in Seq(Entry), SameEnds(u, v), SameEnds(v, w)
    PROVE  SameEnds(u, w)
<1>1. DOMAIN u = DOMAIN v
    BY DEF SameEnds
<1> QED BY <1>1 DEF SameEnds

LEMMA ExtendsTransitive ==
    ASSUME NEW b \in Seq(Box), NEW c \in Seq(Box), NEW d \in Seq(Box), Extends(b, c), Extends(c, d)
    PROVE  Extends(b, d)
<1>1. Len(b) <= Len(d) /\ \A k \in DOMAIN b : k \in DOMAIN c
    BY DEF Extends
<1> QED BY <1>1 DEF Extends

LEMMA AliveAfterCall ==
    ASSUME NEW p, NEW v \in Seq(Entry), NEW u \in Seq(Entry), NEW w \in Seq(Entry), NEW line,
           NEW c \in Seq(Box), NEW d \in Seq(Box), Extends(c, d), Len(v) <= Len(c),
           Alive(p, v, c, line), Alive(p, u, d, line), OnlyStatus(v, w), SameEnds(v, u)
    PROVE  /\ SubSeq(d, 1, Len(c)) \in Seq(Box) /\ SameRefs(c, SubSeq(d, 1, Len(c)))
           /\ Alive(p, w, SubSeq(d, 1, Len(c)), line)
<1> DEFINE n == Len(c)
<1>0. /\ n \in Nat /\ n = Len(c) /\ n <= Len(d) /\ Len(v) <= n /\ Len(u) = Len(v)
      /\ \A k \in DOMAIN v : u[k].borrowEnd = v[k].borrowEnd
      /\ \A k \in 1..n : d[k].owner = c[k].owner /\ d[k].ty = c[k].ty /\ d[k].name = c[k].name
    BY DEF Extends, SameEnds
<1> HIDE DEF n
<1> DEFINE b == SubSeq(d, 1, n)
<1>1. b \in Seq(Box) /\ Len(b) = n /\ DOMAIN b = 1..n /\ \A k \in 1..n : b[k] = d[k] /\ k \in DOMAIN c /\ k \in DOMAIN d
    BY <1>0
<1> HIDE DEF b
<1>2. SameRefs(c, b)
    BY <1>0, <1>1 DEF SameRefs
<1>3. ClaimsMore(v, w) /\ Len(w) = Len(v) /\ DOMAIN w = DOMAIN v /\ Len(v) \in Nat
    BY OnlyStatusClaims DEF ClaimsMore
<1>4. ASSUME NEW k \in DOMAIN b
      PROVE  /\ b[k].owner = 0 => b[k].valid
             /\ b[k].owner # 0 /\ IsReference(b[k].ty) =>
                    IF Over(w, k) THEN LastUse(p, w[k].name) < line
                    ELSE b[k].valid /\ b[k].owner \in DOMAIN w /\ Claimed(w, b[k].owner, b[k].ty)
    <2>1. k \in 1..n /\ k \in DOMAIN c /\ k \in DOMAIN d /\ b[k] = d[k] /\ d[k].owner = c[k].owner /\ d[k].ty = c[k].ty
        BY <1>0, <1>1
    <2>2. k <= Len(v) => k \in DOMAIN v
        BY <1>3, <2>1
    <2>3. CASE b[k].owner = 0
        BY <2>1, <2>3 DEF Alive
    <2>4. CASE b[k].owner # 0 /\ IsReference(b[k].ty)
        <3>1. CASE Over(w, k)
            <4>1. Over(v, k) /\ w[k].name = v[k].name
                BY <1>3, <2>2, <3>1 DEF Over, ClaimsMore
            <4> QED BY <2>1, <2>4, <3>1, <4>1 DEF Alive
        <3>2. CASE ~Over(w, k)
            <4>1. ~Over(v, k) /\ ~Over(u, k)
                BY <1>0, <1>3, <2>2, <3>2 DEF Over, ClaimsMore
            <4>2. c[k].owner \in DOMAIN v /\ Claimed(v, c[k].owner, c[k].ty)
                BY <2>1, <2>4, <4>1 DEF Alive
            <4>3. d[k].valid
                BY <2>1, <2>4, <4>1 DEF Alive
            <4>4. Claimed(w, c[k].owner, c[k].ty)
                BY <1>3, <4>2 DEF ClaimsMore, Claimed
            <4> QED BY <1>3, <2>1, <2>4, <3>2, <4>2, <4>3, <4>4
        <3> QED BY <3>1, <3>2
    <2> QED BY <2>3, <2>4
<1> QED BY <1>1, <1>2, <1>4 DEF Alive, b, n

LEMMA CallKeeps ==
    ASSUME NEW s \in State, NEW x \in Run, Mirror(s.vars, x.cells), NEW a \in Argument, NEW b \in Argument,
           NEW e, e.first = a, e.second = b,
           \A n \in SimpleMentioned(a.e) \cup SimpleMentioned(b.e) : Named(s.vars, n),
           NEW line \in Nat, Clean(CheckCall(s, e, line)), ArgPassedOn(a), ArgPassedOn(b),
           NEW p \in Seq(Statement), Alive(p, s.vars, x.cells, line),
           \A n \in SimpleMentioned(a.e) \cup SimpleMentioned(b.e) : StillUsed(p, n, line)
    PROVE  Keeps(p, x, Exec!RunCall(x, e), CheckCall(s, e, line).vars, line)
<1> DEFINE s1 == CheckArg(s, a, line)
           s2 == CheckArg(s1, b, line)
           t == CheckCall(s, e, line)
           n == Len(x.cells)
           y1 == Exec!Temporary(x, a)
           y2 == Exec!Temporary(y1, b)
           z1 == Exec!Touch(y2, n + 1)
           z2 == Exec!Touch(z1, n + 2)
<1>1. /\ s.vars \in Seq(Entry) /\ x.cells \in Seq(Box) /\ s1 \in State /\ s1.vars \in Seq(Entry)
      /\ Len(s1.vars) = Len(s.vars)
      /\ \A k \in DOMAIN s.vars : s1.vars[k].name = s.vars[k].name /\ s1.vars[k].borrowEnd = s.vars[k].borrowEnd
    BY RunFields, ArgNames, ArgFixes DEF State
<1>2. /\ s2 \in State /\ s2.vars \in Seq(Entry) /\ Grows(s1, s2) /\ Len(s2.vars) = Len(s1.vars)
      /\ \A k \in DOMAIN s1.vars : s2.vars[k].borrowEnd = s1.vars[k].borrowEnd
    BY <1>1, ArgNames, ArgFixes
<1>3. t.diags = s2.diags /\ OnlyStatus(s.vars, t.vars) /\ t.vars \in Seq(Entry)
    <2>1. t.diags = s2.diags
        BY <1>2 DEF CheckCall, State
    <2>2. OnlyStatus(s.vars, t.vars)
        BY CallOnlyMoves
    <2>3. t.vars \in Seq(Entry)
        BY CheckCallGrows, VarsOf
    <2> QED BY <2>1, <2>2, <2>3
<1>4. Clean(s2) /\ Clean(s1)
    BY <1>2, <1>3, CleanBefore DEF Clean
<1>5. Exec!RunCall(x, e) = Exec!Cells(z2, SubSeq(z2.cells, 1, n))
    BY DEF Exec!RunCall
<1>6. /\ y1 \in Run /\ Len(y1.cells) = n + 1 /\ Mirror(s1.vars, y1.cells)
      /\ KeepsMore(p, x, y1, s1.vars, line)
    BY <1>4, ArgGoes, ArgKeeps
<1>7. \A m \in SimpleMentioned(b.e) : Named(s1.vars, m) /\ StillUsed(p, m, line)
    <2>1. \A k \in DOMAIN s.vars : s1.vars[k].name = s.vars[k].name
        BY <1>1
    <2> HIDE DEF s1
    <2>2. \A m : Named(s1.vars, m) <=> Named(s.vars, m)
        BY <1>1, <2>1, SameNamed
    <2> QED BY <2>2
<1> HIDE DEF s1, y1, t
<1>8. /\ y2 \in Run /\ Len(y2.cells) = Len(y1.cells) + 1 /\ Mirror(s2.vars, y2.cells)
      /\ KeepsMore(p, y1, y2, s2.vars, line)
    <2>1. Alive(p, s1.vars, y1.cells, line)
        BY <1>6 DEF KeepsMore
    <2> QED BY <1>1, <1>4, <1>6, <1>7, <2>1, ArgGoes, ArgKeeps
<1> HIDE DEF s2, y2
<1>9. /\ Len(s.vars) \in Nat /\ n \in Nat /\ Len(s.vars) <= n /\ Len(y2.cells) = n + 2
      /\ y2.cells \in Seq(Box) /\ n + 1 \in DOMAIN y2.cells /\ n + 2 \in DOMAIN y2.cells
      /\ n + 1 > Len(s2.vars) /\ n + 2 > Len(s2.vars)
    BY <1>1, <1>2, <1>6, <1>8, RunFields DEF Mirror
<1> HIDE DEF n
<1>10. Alive(p, s2.vars, y2.cells, line) /\ y2.fault = x.fault
    BY <1>6, <1>8 DEF KeepsMore
<1>11. z1 = y2 /\ z2 = y2
    <2>1. ~y2.cells[n + 1].moved /\ ~y2.cells[n + 2].moved
        BY <1>8, <1>9 DEF Mirror
    <2>2. z1 = y2
        BY <1>2, <1>8, <1>9, <1>10, <2>1, GoodTemporary
    <2> HIDE DEF z1
    <2>3. Exec!Touch(y2, n + 2) = y2
        BY <1>2, <1>8, <1>9, <1>10, <2>1, GoodTemporary
    <2> QED BY <2>2, <2>3
<1> DEFINE d == SubSeq(y2.cells, 1, n)
<1>12. Exec!RunCall(x, e) = Exec!Cells(y2, d)
    BY <1>5, <1>11
<1>13. Extends(x.cells, y2.cells) /\ SameEnds(s.vars, s2.vars)
    <2>1. Extends(x.cells, y1.cells) /\ Extends(y1.cells, y2.cells) /\ y1.cells \in Seq(Box)
        BY <1>6, <1>8, RunFields DEF KeepsMore
    <2>2. SameEnds(s.vars, s1.vars) /\ SameEnds(s1.vars, s2.vars)
        BY <1>1, <1>2 DEF SameEnds
    <2> QED BY <1>1, <1>2, <1>9, <2>1, <2>2, ExtendsTransitive, SameEndsTransitive
<1>14. d \in Seq(Box) /\ SameRefs(x.cells, d) /\ Alive(p, t.vars, d, line)
    <2>1. Len(s.vars) <= Len(x.cells)
        BY DEF Mirror
    <2> QED BY <1>1, <1>2, <1>3, <1>9, <1>10, <1>13, <2>1, AliveAfterCall DEF n
<1> HIDE DEF d
<1>15. Exec!Cells(y2, d) \in Run /\ Exec!Cells(y2, d).cells = d /\ Exec!Cells(y2, d).fault = y2.fault
    BY <1>8, <1>14, CellsAre
<1> QED BY <1>10, <1>12, <1>14, <1>15 DEF Keeps, t

PassedOn(e) == e.tag = "call" => ArgPassedOn(e.first) /\ ArgPassedOn(e.second)

LEMMA ExprKeeps ==
    ASSUME NEW s \in State, NEW x \in Run, Mirror(s.vars, x.cells), NEW e \in Expr,
           \A n \in Mentioned(e) : Named(s.vars, n),
           NEW consume \in BOOLEAN, NEW line \in Nat, Clean(CheckExpr(s, e, consume, line)), PassedOn(e),
           NEW p \in Seq(Statement), Alive(p, s.vars, x.cells, line),
           \A n \in Mentioned(e) : StillUsed(p, n, line)
    PROVE  Keeps(p, x, Exec!RunExpr(x, e, consume), CheckExpr(s, e, consume, line).vars, line)
<1>1. CASE e.tag = "call"
    <2>1. e.first \in Argument /\ e.second \in Argument
        BY <1>1 DEF Expr, SimpleExpr
    <2>2. Mentioned(e) = SimpleMentioned(e.first.e) \cup SimpleMentioned(e.second.e)
        BY <1>1 DEF Mentioned
    <2>3. CheckExpr(s, e, consume, line) = CheckCall(s, e, line) /\ Exec!RunExpr(x, e, consume) = Exec!RunCall(x, e)
        BY <1>1 DEF CheckExpr, Exec!RunExpr
    <2>4. ArgPassedOn(e.first) /\ ArgPassedOn(e.second)
        BY <1>1 DEF PassedOn
    <2> QED BY <2>1, <2>2, <2>3, <2>4, CallKeeps
<1>2. CASE e.tag = "refcall"
    <2> DEFINE y == Exec!Borrow(x, Exec!Lookup(x.cells, e.name), e.mutable)
               t == CheckAddr(s, e.name, e.mutable, line)
    <2>1. e.name \in Names /\ e.mutable \in BOOLEAN /\ Named(s.vars, e.name) /\ StillUsed(p, e.name, line)
        BY <1>2 DEF Expr, SimpleExpr, Mentioned, SimpleMentioned
    <2>2. CheckExpr(s, e, consume, line) = t /\ Exec!RunExpr(x, e, consume) = y
        BY <1>2 DEF CheckExpr, Exec!RunExpr, Exec!RunSimpleExpr
    <2> HIDE DEF y, t
    <2> QED BY <2>1, <2>2, AddrKeeps DEF y, t
<1>3. CASE e.tag \notin {"call", "refcall"}
    <2>1. e \in SimpleExpr
        BY <1>3 DEF Expr
    <2>2. Mentioned(e) = SimpleMentioned(e)
        BY <1>3 DEF Mentioned
    <2>3. /\ CheckExpr(s, e, consume, line) = CheckSimpleExpr(s, e, consume, line)
          /\ Exec!RunExpr(x, e, consume) = Exec!RunSimpleExpr(x, e, consume)
        BY <1>3 DEF CheckExpr, Exec!RunExpr
    <2> QED BY <2>1, <2>2, <2>3, SimpleExprKeeps
<1> QED BY <1>1, <1>2, <1>3

-----------------------------------------------------------------------------
(***************************************************************************)
(* References held in variables.  The checker knows one by the entry that  *)
(* a `let' of a borrow made; a reference that is copied from one variable  *)
(* to another, or assigned, has no such entry and is not tracked.  Nor is  *)
(* one made by `&' for a parameter that is not a reference.                *)
(***************************************************************************)
BorrowLines(p) == {k \in DOMAIN p : Borrowing(p[k])}
Borrowers(p) == {p[k].name : k \in BorrowLines(p)}
Sources(p) == {p[k].e.name : k \in BorrowLines(p)}
Copies(p, e) == e.tag = "ident" /\ e.name \in Borrowers(p)
LineTracked(p, a) ==
    /\ a.tag = "let" => ~Copies(p, a.e)
    /\ a.tag = "assign" => ~Copies(p, a.e) /\ a.e.tag \notin {"addr", "refcall"}
    /\ a.tag \in {"let", "assign", "store", "use", "return_expr"} => PassedOn(a.e)
Tracked(p) == \A k \in DOMAIN p : LineTracked(p, p[k])

(***************************************************************************)
(* A variable that holds a reference to another one: its entry names the   *)
(* owner as its source.  Until the entry is released the reference is      *)
(* good; once it is, no later line mentions the variable.                  *)
(***************************************************************************)
Bound(p, v, k, b, line) ==
    /\ IsReference(b.ty) /\ v[k].name \in Borrowers(p) /\ v[k].source \in Sources(p)
    /\ b.owner = Find(v, v[k].source) /\ b.ty = RefType(v[k].borrowMut)
    /\ IF v[k].borrowEnd < 0 THEN LastUse(p, v[k].name) < line
       ELSE b.valid /\ LastUse(p, v[k].name) <= v[k].borrowEnd
Tied(p, v, c, line) ==
    \A k \in DOMAIN c : IF c[k].owner = 0 THEN c[k].valid ELSE Bound(p, v, k, c[k], line)

(* Entries that differ in their status and their counters only.            *)
SameLoans(v, w) == Len(w) = Len(v) /\ \A k \in DOMAIN v : Fixed(v[k], w[k])

LEMMA SameLoansFind ==
    ASSUME NEW v \in Seq(Entry), NEW w \in Seq(Entry), SameLoans(v, w), NEW n
    PROVE  Find(w, n) = Find(v, n)
<1>1. \A k \in DOMAIN v : v[k].name = w[k].name /\ v[k].active = w[k].active
    BY DEF SameLoans, Fixed
<1> QED BY <1>1, SameFind DEF SameLoans

LEMMA TiedIsAlive ==
    ASSUME NEW p, NEW v \in Seq(Entry), NEW c \in Seq(Box), NEW line, Balanced(v), InStep(v, c), Tied(p, v, c, line)
    PROVE  Alive(p, v, c, line)
<1> SUFFICES ASSUME NEW k \in DOMAIN c, c[k].owner # 0
             PROVE  IF Over(v, k) THEN LastUse(p, v[k].name) < line
                    ELSE c[k].valid /\ c[k].owner \in DOMAIN v /\ Claimed(v, c[k].owner, c[k].ty)
    BY DEF Alive, Tied
<1>1. /\ Bound(p, v, k, c[k], line) /\ k \in DOMAIN v /\ k <= Len(v) /\ v[k].active
      /\ v[k].borrowEnd \in Int /\ v[k].borrowMut \in BOOLEAN
    <2>1. k \in DOMAIN v /\ k <= Len(v)
        BY DEF InStep
    <2>2. v[k] \in Entry
        BY <2>1
    <2>3. v[k].borrowEnd \in Int /\ v[k].borrowMut \in BOOLEAN
        BY <2>2 DEF Entry
    <2> QED BY <2>1, <2>3 DEF Tied, InStep, Mirror
<1>2. CASE v[k].borrowEnd < 0
    BY <1>1, <1>2 DEF Bound, Over
<1>3. CASE v[k].borrowEnd >= 0
    <2> DEFINE i == c[k].owner
               m == v[k].borrowMut
    <2>1. ~Over(v, k) /\ c[k].valid /\ i = Find(v, v[k].source) /\ c[k].ty = RefType(m)
        BY <1>1, <1>3 DEF Bound, Over
    <2>2. i \in 1..(k - 1)
        BY <1>1, <1>3, <2>1 DEF Balanced, Lenders
    <2>3. i \in DOMAIN v
        BY <1>1, <2>2
    <2>4. k \in Out(v, i, m)
        BY <1>1, <1>3, <2>1 DEF Out
    <2> HIDE DEF i, m
    <2>5. Claimed(v, i, RefType(m))
        <3>1. CASE m
            <4>1. Out(v, i, TRUE) # {}
                BY <2>4, <3>1, <1>1
            <4> QED BY <2>3, <3>1, <4>1 DEF Balanced, Counts, Claimed, RefType
        <3>2. CASE ~m
            <4>1. m = FALSE
                BY <1>1, <3>2 DEF m
            <4>2. Out(v, i, FALSE) # {} /\ IsFiniteSet(Out(v, i, FALSE)) /\ Cardinality(Out(v, i, FALSE)) \in Nat
                BY <2>4, <4>1, OutType
            <4>3. Cardinality(Out(v, i, FALSE)) > 0
                <5> DEFINE S == Out(v, i, FALSE)
                           n == Cardinality(S)
                <5>1. n \in Nat /\ n # 0
                    BY <4>2, FS_EmptySet
                <5> HIDE DEF n
                <5>2. n > 0
                    BY <5>1
                <5> QED BY <5>2 DEF n, S
            <4>4. v[i].shared > 0
                BY <2>3, <4>3 DEF Balanced, Counts
            <4> QED BY <3>2, <4>4 DEF Claimed, RefType
        <3> QED BY <3>1, <3>2
    <2> QED BY <2>1, <2>3, <2>5 DEF i
<1> QED BY <1>1, <1>2, <1>3

(* The same references, still out, of entries that stand for the same.     *)
LEMMA TiedAgain ==
    ASSUME NEW p, NEW v \in Seq(Entry), NEW w \in Seq(Entry), NEW c \in Seq(Box), NEW d \in Seq(Box), NEW line,
           Len(c) = Len(v), Tied(p, v, c, line), SameLoans(v, w), SameRefs(c, d), Alive(p, w, d, line)
    PROVE  Tied(p, w, d, line)
<1> SUFFICES ASSUME NEW k \in DOMAIN d
             PROVE  IF d[k].owner = 0 THEN d[k].valid ELSE Bound(p, w, k, d[k], line)
    BY DEF Tied
<1>1. /\ k \in DOMAIN c /\ k \in DOMAIN v /\ k \in DOMAIN w /\ k <= Len(w)
      /\ d[k].owner = c[k].owner /\ d[k].ty = c[k].ty /\ Fixed(v[k], w[k])
    BY DEF SameRefs, SameLoans
<1>2. CASE d[k].owner = 0
    BY <1>2 DEF Alive
<1>3. CASE d[k].owner # 0
    <2>1. Bound(p, v, k, c[k], line)
        BY <1>1, <1>3 DEF Tied
    <2>2. Find(w, w[k].source) = Find(v, v[k].source)
        BY <1>1, SameLoansFind DEF Fixed
    <2>3. ~(w[k].borrowEnd < 0) => d[k].valid
        BY <1>1, <1>3, <2>1 DEF Alive, Over, Bound
    <2>4. Bound(p, w, k, d[k], line)
        BY <1>1, <2>1, <2>2, <2>3 DEF Bound, Fixed
    <2> QED BY <1>3, <2>4
<1> QED BY <1>2, <1>3

LEMMA TiedSame ==
    ASSUME NEW p, NEW v \in Seq(Entry), NEW w \in Seq(Entry), NEW c \in Seq(Box), NEW line,
           Len(c) = Len(v), Tied(p, v, c, line), SameLoans(v, w)
    PROVE  Tied(p, w, c, line)
<1> SUFFICES ASSUME NEW k \in DOMAIN c
             PROVE  IF c[k].owner = 0 THEN c[k].valid ELSE Bound(p, w, k, c[k], line)
    BY DEF Tied
<1>1. k \in DOMAIN v /\ Fixed(v[k], w[k])
    BY DEF SameLoans
<1>2. Find(w, w[k].source) = Find(v, v[k].source)
    BY <1>1, SameLoansFind DEF Fixed
<1> QED BY <1>1, <1>2 DEF Tied, Bound, Fixed

LEMMA TiedLater ==
    ASSUME NEW p \in Seq(Statement), NEW v, NEW c, NEW line \in Nat, Tied(p, v, c, line)
    PROVE  Tied(p, v, c, line + 1)
<1>1. \A n : LastUse(p, n) < line => LastUse(p, n) < line + 1
    <2>1. \A n : LastUse(p, n) \in Nat
        BY LastUseType
    <2>2. \A l \in Nat : l < line => l < line + 1
        OBVIOUS
    <2> QED BY <2>1, <2>2
<1> QED BY <1>1 DEF Tied, Bound

(* What expires is not mentioned any more.                                 *)
LEMMA ExpireTies ==
    ASSUME NEW s \in State, NEW c \in Seq(Box), NEW line \in Nat, NEW p \in Seq(Statement), InStep(s.vars, c),
           Tied(p, s.vars, c, line)
    PROVE  Tied(p, Expire(s, line).vars, c, line)
<1> DEFINE v == s.vars
           w == Expire(s, line).vars
<1>1. Expired(v, w, Due(v, line)) /\ v \in Seq(Entry)
    BY ExpireIs DEF State
<1> HIDE DEF v, w
<1> SUFFICES ASSUME NEW k \in DOMAIN c
             PROVE  IF c[k].owner = 0 THEN c[k].valid ELSE Bound(p, w, k, c[k], line)
    BY DEF Tied, w
<1>2. /\ w \in Seq(Entry) /\ Len(w) = Len(v) /\ k \in DOMAIN v
      /\ \A i \in DOMAIN v : v[i].name = w[i].name /\ v[i].active = w[i].active
    <2>1. k \in DOMAIN v
        BY DEF InStep, v
    <2> QED BY <1>1, <2>1 DEF Expired, Kin, SameReference
<1>3. \A n : Find(w, n) = Find(v, n)
    BY <1>1, <1>2, SameFind
<1>4. /\ w[k].name = v[k].name /\ w[k].source = v[k].source /\ w[k].borrowMut = v[k].borrowMut
      /\ w[k].borrowEnd = v[k].borrowEnd \/ (k \in Due(v, line) /\ w[k].borrowEnd = Released)
    BY <1>1, <1>2 DEF Expired, Kin, SameReference
<1>5. CASE c[k].owner # 0
    <2>1. Bound(p, v, k, c[k], line)
        BY <1>5 DEF Tied, v
    <2>2. CASE w[k].borrowEnd = v[k].borrowEnd
        BY <1>3, <1>4, <1>5, <2>1, <2>2 DEF Bound
    <2>3. CASE k \in Due(v, line) /\ w[k].borrowEnd = Released
        <3> DEFINE l == LastUse(p, v[k].name)
                   e == v[k].borrowEnd
        <3>1. l \in Nat /\ e \in Int /\ e >= 0 /\ e < line /\ (e >= 0 => l <= e)
            BY <1>1, <1>2, <2>1, <2>3, LastUseType, EntryFields DEF Due, Bound
        <3> HIDE DEF l, e
        <3>2. l < line
            BY <3>1
        <3>3. w[k].borrowEnd < 0
            BY <2>3 DEF Released
        <3> QED BY <1>3, <1>4, <1>5, <2>1, <3>2, <3>3 DEF Bound, l
    <2> QED BY <1>4, <1>5, <2>2, <2>3
<1>6. CASE c[k].owner = 0
    BY <1>6 DEF Tied
<1> QED BY <1>5, <1>6

(* A statement that neither ended nor used a reference wrongly.            *)
Ties(p, x, y, w, line) == y \in Run /\ y.fault = x.fault /\ Tied(p, w, y.cells, line)

LEMMA MentionedIsUsed ==
    ASSUME NEW p \in Seq(Statement), NEW line \in DOMAIN p, NEW n \in Mentions(p[line])
    PROVE  StillUsed(p, n, line)
<1> DEFINE S == {k \in DOMAIN p : n \in Mentions(p[k])}
<1>1. line \in S /\ S \in SUBSET (1..Len(p)) /\ Len(p) \in Nat
    OBVIOUS
<1>2. LastUse(p, n) = LastOf(S, 0)
    BY DEF LastUse
<1> HIDE DEF S
<1>3. \A j \in S : j <= LastOf(S, 0)
    BY <1>1, LastIs
<1> QED BY <1>1, <1>2, <1>3 DEF StillUsed

LEMMA OnlyStatusLoans ==
    ASSUME NEW v, NEW w, OnlyStatus(v, w)
    PROVE  SameLoans(v, w)
BY DEF OnlyStatus, SameLoans

LEMMA CountedLoans ==
    ASSUME NEW v, NEW w, NEW i, NEW m, Counted(v, w, i, m)
    PROVE  SameLoans(v, w)
BY DEF Counted, SameLoans

LEMMA TiedAppend ==
    ASSUME NEW p, NEW v \in Seq(Entry), NEW c \in Seq(Box), NEW line, Len(c) = Len(v), Tied(p, v, c, line),
           NEW e \in Entry, e.active, Unnamed(v, e.name), NEW b \in Box,
           IF b.owner = 0 THEN b.valid ELSE Bound(p, Append(v, e), Len(v) + 1, b, line)
    PROVE  Tied(p, Append(v, e), Append(c, b), line)
<1> DEFINE w == Append(v, e)
           d == Append(c, b)
           n == Len(v)
<1>1. /\ Len(d) = n + 1 /\ n \in Nat /\ d[n + 1] = b /\ DOMAIN d = 1..(n + 1)
      /\ \A k \in 1..n : w[k] = v[k] /\ d[k] = c[k] /\ k \in DOMAIN c
    OBVIOUS
<1>2. \A m : m # e.name => Find(w, m) = Find(v, m)
    BY FreshFind
<1>3. Find(v, e.name) = 0
    BY UnnamedFind
<1>4. IF b.owner = 0 THEN b.valid ELSE Bound(p, w, n + 1, b, line)
    OBVIOUS
<1> HIDE DEF w, d, n
<1> SUFFICES ASSUME NEW k \in DOMAIN d
             PROVE  IF d[k].owner = 0 THEN d[k].valid ELSE Bound(p, w, k, d[k], line)
    BY DEF Tied, w, d
<1>5. k \in 1..n \/ k = n + 1
    BY <1>1
<1>6. CASE k = n + 1
    BY <1>1, <1>4, <1>6
<1>7. CASE k \in 1..n
    <2>1. w[k] = v[k] /\ d[k] = c[k] /\ k \in DOMAIN c
        BY <1>1, <1>7
    <2>2. CASE c[k].owner = 0
        BY <2>1, <2>2 DEF Tied
    <2>3. CASE c[k].owner # 0
        <3>1. Bound(p, v, k, c[k], line)
            BY <2>1, <2>3 DEF Tied
        <3>2. v[k].source # e.name
            BY <1>3, <2>3, <3>1 DEF Bound
        <3>3. Find(w, w[k].source) = Find(v, v[k].source)
            BY <1>2, <2>1, <3>2
        <3> QED BY <2>1, <2>3, <3>1, <3>3 DEF Bound
    <2> QED BY <2>2, <2>3
<1> QED BY <1>5, <1>6, <1>7

LEMMA ExprTies ==
    ASSUME NEW s \in State, NEW x \in Run, InStep(s.vars, x.cells), Balanced(s.vars), NEW e \in Expr,
           \A n \in Mentioned(e) : Named(s.vars, n),
           NEW consume \in BOOLEAN, NEW line \in Nat, Clean(CheckExpr(s, e, consume, line)), PassedOn(e),
           NEW p \in Seq(Statement), Tied(p, s.vars, x.cells, line),
           \A n \in Mentioned(e) : StillUsed(p, n, line)
    PROVE  /\ Ties(p, x, Exec!RunExpr(x, e, consume), CheckExpr(s, e, consume, line).vars, line)
           /\ Keeps(p, x, Exec!RunExpr(x, e, consume), CheckExpr(s, e, consume, line).vars, line)
<1> DEFINE y == Exec!RunExpr(x, e, consume)
           w == CheckExpr(s, e, consume, line).vars
<1>1. s.vars \in Seq(Entry) /\ x.cells \in Seq(Box) /\ w \in Seq(Entry) /\ SameLoans(s.vars, w)
    BY RunFields, CheckExprGrows, VarsOf, ExprOnlyMoves, OnlyStatusLoans DEF State
<1>2. Alive(p, s.vars, x.cells, line)
    BY <1>1, TiedIsAlive
<1>3. Keeps(p, x, y, w, line)
    BY <1>2, ExprKeeps DEF InStep
<1> HIDE DEF y, w
<1>4. Tied(p, w, y.cells, line)
    BY <1>1, <1>3, TiedAgain, RunFields DEF Keeps, InStep
<1> QED BY <1>3, <1>4 DEF Ties, Keeps, y, w

(* What an expression that is not a borrow refers to: nothing, unless it   *)
(* is a variable that a borrow made.                                       *)
LEMMA RefersToNothing ==
    ASSUME NEW p, NEW v \in Seq(Entry), NEW c \in Seq(Box), NEW line, InStep(v, c), Tied(p, v, c, line),
           NEW e \in Expr, \A n \in Mentioned(e) : Named(v, n), ~Copies(p, e), e.tag \notin {"addr", "refcall"}
    PROVE  Exec!Referent(c, e) = 0
<1>1. CASE e.tag = "ident"
    <2> DEFINE i == Find(v, e.name)
    <2>1. e.name \in Names /\ Named(v, e.name)
        BY <1>1 DEF Expr, SimpleExpr, Mentioned, SimpleMentioned
    <2>2. Exec!Lookup(c, e.name) = i /\ i \in DOMAIN c /\ v[i].name = e.name
        BY <2>1, LookupIs DEF InStep
    <2> HIDE DEF i
    <2>3. c[i].owner = 0
        BY <1>1, <2>2 DEF Tied, Bound, Copies
    <2> QED BY <1>1, <2>2, <2>3 DEF Exec!Referent
<1>2. CASE e.tag # "ident"
    BY <1>2 DEF Exec!Referent
<1> QED BY <1>1, <1>2

-----------------------------------------------------------------------------
(* A reference that is declared.                                           *)
LetFrom(s, a, line) ==
    IF a.e.tag = "addr" THEN s ELSE CheckAddr(s, a.e.name, a.e.mutable, line)

LEMMA LetFromIs ==
    ASSUME NEW s \in State, NEW a \in Statement, a.tag = "let", IsBorrow(a), NEW line \in Nat,
           prog \in Seq(Statement), Clean(CheckLet(s, a, line))
    PROVE  /\ a.e.name \in Names /\ a.e.mutable \in BOOLEAN /\ BorrowsMut(a) \in BOOLEAN
           /\ LetFrom(s, a, line) \in State /\ OnlyStatus(s.vars, LetFrom(s, a, line).vars)
           /\ a.e.tag = "refcall" => Clean(CheckAddr(s, a.e.name, a.e.mutable, line))
           /\ Clean(CreateBorrow(LetFrom(s, a, line), a.e.name, BorrowsMut(a), line))
           /\ CheckLet(s, a, line).vars = LetVars(LetFrom(s, a, line).vars, a, line)
<1> DEFINE r == CheckAddr(s, a.e.name, a.e.mutable, line)
           s1 == LetFrom(s, a, line)
           bm == BorrowsMut(a)
           t == CheckLet(s, a, line)
<1>1. /\ a.e.name \in Names /\ bm \in BOOLEAN /\ a.e.tag \in {"addr", "refcall"} /\ a.e.mutable \in BOOLEAN
      /\ a.name \in Names /\ a.mutable \in BOOLEAN /\ s.vars \in Seq(Entry)
    BY DEF Statement, State, IsBorrow, Expr, SimpleExpr, BorrowsMut
<1>2. r \in State /\ OnlyStatus(s.vars, r.vars)
    BY <1>1, CheckAddrGrows, AddrOnlyMoves DEF Grows
<1>3. s1 \in State /\ OnlyStatus(s.vars, s1.vars)
    BY <1>1, <1>2, OnlyStatusReflexive DEF LetFrom
<1>4. t = LetBorrow(s1, a.name, a.mutable, a.e.name, bm, line)
    BY <1>1 DEF CheckLet, CheckExpr, BorrowsMut, LetFrom
<1>5. CreateBorrow(s1, a.e.name, bm, line) \in State /\ Grows(s1, CreateBorrow(s1, a.e.name, bm, line))
    BY <1>1, <1>3, CreateBorrowGrows DEF Grows
<1>6. Clean(CreateBorrow(s1, a.e.name, bm, line))
    <2> HIDE DEF s1
    <2> QED BY <1>4, <1>5 DEF LetBorrow, AddVar, Clean, State
<1>7. Clean(s1)
    BY <1>5, <1>6, CleanBefore
<1>8. a.e.tag = "refcall" => Clean(r)
    BY <1>7 DEF LetFrom
<1>9. t.vars = LetVars(s1.vars, a, line)
    <2> HIDE DEF s1, bm
    <2>1. LetBorrow(s1, a.name, a.mutable, a.e.name, bm, line).vars =
          LentVars(s1.vars, a.name, a.mutable, a.e.name, bm, line)
        BY <1>1, <1>3, LetBorrowIs
    <2> QED BY <1>4, <2>1 DEF LetVars, bm
<1> QED BY <1>1, <1>3, <1>6, <1>8, <1>9

LEMMA LastNamedIs ==
    ASSUME NEW n, NEW line \in Nat, prog \in Seq(Statement)
    PROVE  LastNamed(n, line) \in Nat /\ LastUse(prog, n) <= LastNamed(n, line)
<1> DEFINE l == LastUse(prog, n)
           S == {l, line}
<1>1. l \in Nat
    BY LastUseType
<1>2. LastNamed(n, line) = LastOf(S, line)
    BY DEF LastNamed
<1> HIDE DEF l
<1>3. \E i \in S : \A j \in S : j <= i
    <2>1. CASE l <= line
        BY <1>1, <2>1
    <2>2. CASE line <= l
        BY <1>1, <2>2
    <2> QED BY <1>1, <2>1, <2>2
<1>4. LastOf(S, line) \in S /\ \A j \in S : j <= LastOf(S, line)
    <2> HIDE DEF S
    <2> QED BY <1>3 DEF LastOf
<1> QED BY <1>1, <1>2, <1>4 DEF l

(* The entry that a granted borrow gets stands for the cell of the run.    *)
LEMMA LentIsBound ==
    ASSUME NEW u \in Seq(Entry), NEW n \in Names, NEW m, NEW src \in Names, NEW bm \in BOOLEAN, NEW line \in Nat,
           prog \in Seq(Statement), NEW e, e = LentEntry(u, n, m, src, bm, line),
           NEW w \in Seq(Entry), w[Len(u) + 1] = e, NEW i \in Nat, i # 0, Lender(u, src, bm) = i, Find(w, src) = i,
           n \in Borrowers(prog), src \in Sources(prog)
    PROVE  Bound(prog, w, Len(u) + 1, NewBox(n, RefType(bm), i), line)
<1>1. e.name = n /\ e.source = src /\ e.borrowMut = bm /\ e.borrowEnd = EndLine(i, n, line)
    BY DEF LentEntry, NewRefEntry, NewEntry
<1>2. EndLine(i, n, line) = LastNamed(n, line)
    BY DEF EndLine
<1>3. LastNamed(n, line) \in Nat /\ LastUse(prog, n) <= LastNamed(n, line)
    BY LastNamedIs
<1>4. ~(e.borrowEnd < 0) /\ LastUse(prog, n) <= e.borrowEnd
    BY <1>1, <1>2, <1>3
<1>5. IsReference(RefType(bm))
    BY DEF IsReference, RefType
<1> QED BY <1>1, <1>4, <1>5 DEF Bound, NewBox

LEMMA RunLetIs ==
    ASSUME NEW s \in State, NEW x \in Run, Mirror(s.vars, x.cells), NEW a \in Statement, a.tag = "let",
           \A n \in Mentioned(a.e) : Named(s.vars, n)
    PROVE  LET ty == Exec!ValueType(x.cells, a.e, a.ty)
               owner == Exec!Referent(x.cells, a.e)
               y == Exec!RunExpr(x, a.e, TRUE)
           IN  /\ NewBox(a.name, ty, owner) \in Box
               /\ Exec!RunLet(x, a) = Exec!Cells(y, Append(y.cells, NewBox(a.name, ty, owner)))
<1> DEFINE ty == Exec!ValueType(x.cells, a.e, a.ty)
           owner == Exec!Referent(x.cells, a.e)
           y == Exec!RunExpr(x, a.e, TRUE)
<1>1. a.name \in Names /\ a.ty \in Types /\ a.e \in Expr /\ s.vars \in Seq(Entry) /\ x.cells \in Seq(Box)
    BY RunFields DEF Statement, State
<1>2. owner \in Nat /\ ty = CASE a.e.tag = "ident" -> TypeOf(s.vars, a.e.name)
                              [] a.e.tag = "addr" -> RefType(a.e.mutable)
                              [] a.e.tag = "refcall" -> RefType(a.e.returnsMut)
                              [] OTHER -> a.ty
    BY <1>1, ValueIs
<1>3. ty \in Types
    <2>1. a.e.tag = "ident" => a.e.name \in Names
        BY <1>1 DEF Expr, SimpleExpr
    <2>2. a.e.tag = "ident" => TypeOf(s.vars, a.e.name) \in Types
        BY <1>1, <2>1, TypeOfType
    <2>3. \A m : RefType(m) \in Types
        BY DEF RefType, Types
    <2> QED BY <1>1, <1>2, <2>2, <2>3
<1>4. Exec!RunLet(x, a) = Exec!Cells(y, Append(y.cells, Exec!NewCell(a.name, ty, owner, TRUE)))
    BY DEF Exec!RunLet
<1> HIDE DEF ty, owner, y
<1>5. Exec!NewCell(a.name, ty, owner, TRUE) = NewBox(a.name, ty, owner) /\ NewBox(a.name, ty, owner) \in Box
    BY <1>1, <1>2, <1>3, NewCellIs
<1> QED BY <1>4, <1>5 DEF ty, owner, y

LEMMA LetTies ==
    ASSUME NEW s \in State, NEW x \in Run, InStep(s.vars, x.cells), Balanced(s.vars), prog \in Seq(Statement),
           NEW line \in DOMAIN prog, NEW a \in Statement, prog[line] = a, a.tag = "let",
           \A n \in Mentioned(a.e) : Named(s.vars, n), Unnamed(s.vars, a.name), LineTracked(prog, a),
           \A n \in Mentioned(a.e) : StillUsed(prog, n, line),
           Clean(CheckLet(s, a, line)), Tied(prog, s.vars, x.cells, line)
    PROVE  Ties(prog, x, Exec!RunLet(x, a), CheckLet(s, a, line).vars, line)
<1> DEFINE t == CheckLet(s, a, line)
           y == Exec!RunExpr(x, a.e, TRUE)
           ty == Exec!ValueType(x.cells, a.e, a.ty)
           owner == Exec!Referent(x.cells, a.e)
           b == NewBox(a.name, ty, owner)
<1>1. /\ a.name \in Names /\ a.ty \in Types /\ a.mutable \in BOOLEAN /\ a.e \in Expr /\ line \in Nat
      /\ s.vars \in Seq(Entry) /\ x.cells \in Seq(Box) /\ Mirror(s.vars, x.cells) /\ Len(x.cells) = Len(s.vars)
    BY RunFields DEF Statement, State, InStep
<1>2. b \in Box /\ Exec!RunLet(x, a) = Exec!Cells(y, Append(y.cells, b))
    BY <1>1, RunLetIs
<1>3. Alive(prog, s.vars, x.cells, line)
    BY <1>1, TiedIsAlive
<1>4. \E u \in Seq(Entry), e \in Entry, w \in Seq(Entry) :
        /\ t.vars = Append(u, e) /\ e.active /\ e.name = a.name /\ SameLoans(s.vars, u)
        /\ Keeps(prog, x, y, w, line) /\ SameLoans(s.vars, w) /\ SameLoans(w, u)
        /\ IF b.owner = 0 THEN b.valid ELSE Bound(prog, t.vars, Len(u) + 1, b, line)
    <2>1. CASE IsBorrow(a)
        <3> DEFINE s1 == LetFrom(s, a, line)
                   src == a.e.name
                   bm == BorrowsMut(a)
                   i == Lender(s1.vars, src, bm)
                   u == Lent(s1.vars, i, bm)
                   e == LentEntry(s1.vars, a.name, a.mutable, src, bm, line)
        <3>1. /\ src \in Names /\ a.e.mutable \in BOOLEAN /\ bm \in BOOLEAN
              /\ s1 \in State /\ OnlyStatus(s.vars, s1.vars)
              /\ a.e.tag = "refcall" => Clean(CheckAddr(s, src, a.e.mutable, line))
              /\ Clean(CreateBorrow(s1, src, bm, line)) /\ t.vars = LetVars(s1.vars, a, line)
            BY <1>1, <2>1, LetFromIs
        <3>2. a.e.tag \in {"addr", "refcall"} /\ Named(s.vars, src) /\ StillUsed(prog, src, line)
            BY <2>1 DEF IsBorrow, Mentioned, SimpleMentioned
        <3>3. /\ y = Exec!Borrow(x, Exec!Lookup(x.cells, src), a.e.mutable)
              /\ owner = Exec!Lookup(x.cells, src) /\ ty = RefType(bm)
            BY <3>2, SameReading DEF Exec!RunExpr, Exec!RunSimpleExpr, Exec!Referent, Exec!ValueType, BorrowsMut
        <3>4. Keeps(prog, x, y, s1.vars, line)
            <4>1. CASE a.e.tag = "addr"
                <5>1. s1 = s /\ bm = a.e.mutable
                    BY <4>1 DEF LetFrom, BorrowsMut
                <5> HIDE DEF y, s1, bm, src
                <5> QED BY <1>1, <1>3, <3>1, <3>2, <3>3, <5>1, BorrowKeeps
            <4>2. CASE a.e.tag = "refcall"
                <5>1. s1 = CheckAddr(s, src, a.e.mutable, line)
                    BY <4>2 DEF LetFrom
                <5> HIDE DEF y, s1, bm, src
                <5> QED BY <1>1, <1>3, <3>1, <3>2, <3>3, <4>2, <5>1, AddrKeeps
            <4> QED BY <3>2, <4>1, <4>2
        <3>5. owner = Find(s.vars, src) /\ owner \in DOMAIN s.vars /\ owner # 0 /\ owner \in Nat /\ src # a.name
            <4>1. src # a.name
                BY <3>2 DEF Named, Unnamed
            <4> QED BY <1>1, <3>1, <3>2, <3>3, <4>1, LookupIs
        <3>6. s1.vars \in Seq(Entry) /\ SameLoans(s.vars, s1.vars) /\ Len(s1.vars) = Len(s.vars)
            BY <3>1, OnlyStatusLoans DEF State, SameLoans
        <3>7. Find(s1.vars, src) = owner
            <4> HIDE DEF s1, owner
            <4> QED BY <1>1, <3>5, <3>6, SameLoansFind
        <3>8. i = owner /\ i \in 0..Len(s1.vars)
            <4>1. i = Find(s1.vars, src)
                <5> HIDE DEF s1, bm, src, owner
                <5> QED BY <3>1, <3>5, <3>7, BorrowGranted
            <4> QED BY <1>1, <3>5, <3>6, <3>7, <4>1
        <3>9. t.vars = Append(u, e)
            BY <3>1 DEF LetVars, LentVars
        <3>10. e \in Entry /\ e.active /\ e.name = a.name
            BY <1>1, <3>1, LentEntryIs
        <3> HIDE DEF s1, i, owner, ty, e, src, bm, y, t
        <3>11. Counted(s1.vars, u, i, bm)
            BY <3>1, <3>6, <3>8, LentIs
        <3> HIDE DEF u
        <3>12. u \in Seq(Entry) /\ SameLoans(s1.vars, u) /\ Len(u) = Len(s1.vars)
            <4>1. SameLoans(s1.vars, u)
                BY <3>1, <3>6, <3>8, <3>11, CountedLoans
            <4>2. u \in Seq(Entry) /\ Len(u) = Len(s1.vars)
                BY <3>11 DEF Counted
            <4> QED BY <4>1, <4>2
        <3>13. SameLoans(s.vars, u)
            <4>1. DOMAIN s1.vars = DOMAIN s.vars
                BY <3>6
            <4> QED BY <3>6, <3>12, <4>1 DEF SameLoans, Fixed
        <3>14. Find(t.vars, src) = owner
            <4>1. Find(u, src) = owner
                BY <3>6, <3>7, <3>12, SameLoansFind
            <4> QED BY <3>5, <3>9, <3>10, <3>12, <4>1, FreshFind
        <3>15. a.name \in Borrowers(prog) /\ src \in Sources(prog)
            <4>1. line \in BorrowLines(prog)
                BY <2>1 DEF BorrowLines, Borrowing, IsBorrow
            <4> QED BY <4>1 DEF Borrowers, Sources, src
        <3>16. t.vars \in Seq(Entry) /\ t.vars[Len(s1.vars) + 1] = e
            BY <3>9, <3>10, <3>12
        <3>17. Bound(prog, t.vars, Len(s1.vars) + 1, NewBox(a.name, RefType(bm), i), line)
            BY <1>1, <3>1, <3>5, <3>6, <3>8, <3>14, <3>15, <3>16, LentIsBound DEF e, i
        <3>18. Bound(prog, t.vars, Len(u) + 1, b, line) /\ b.owner # 0
            BY <3>3, <3>5, <3>8, <3>12, <3>17 DEF NewBox
        <3> HIDE DEF b
        <3> QED BY <3>4, <3>6, <3>9, <3>10, <3>12, <3>13, <3>18
    <2>2. CASE ~IsBorrow(a)
        <3> DEFINE s1 == CheckExpr(s, a.e, TRUE, line)
                   et == IF a.e.tag = "ident" THEN TypeOf(s.vars, a.e.name) ELSE a.ty
                   e == NewEntry(a.name, et, a.mutable, 0)
        <3>1. ~(a.e.tag = "call" /\ IsReference(a.ty))
            <4> SUFFICES ASSUME a.e.tag = "call" /\ IsReference(a.ty) PROVE FALSE
                OBVIOUS
            <4> DEFINE r == CheckExpr(s, a.e, FALSE, line)
                       q == Report(r, "E5008", NoName, line)
            <4>1. t = AddVar(q, NewRefEntry(a.name, a.ty, a.mutable, NoName, FALSE, Released))
                BY DEF CheckLet
            <4>2. r \in State
                BY <1>1, CheckExprGrows DEF Grows
            <4> HIDE DEF r, t
            <4>5. "E5008" \in Codes /\ NoName \in Names \cup {NoName}
                BY DEF Codes
            <4>3. q \in State
                BY <1>1, <4>2, <4>5, ReportGrows DEF Grows
            <4>4. ~Clean(q)
                BY <4>2, ReportIsNotClean
            <4> HIDE DEF q
            <4> QED BY <4>1, <4>3, <4>4 DEF AddVar, Clean, State, t
        <3>2. t = AddVar(s1, e)
            BY <2>2, <3>1 DEF CheckLet, IsBorrow
        <3>3. s1 \in State /\ s1.vars \in Seq(Entry) /\ OnlyStatus(s.vars, s1.vars)
            BY <1>1, CheckExprGrows, VarsOf, ExprOnlyMoves
        <3>4. et \in Types
            BY <1>1, TypeOfType
        <3> HIDE DEF et
        <3>5. e \in Entry /\ e.active /\ e.name = a.name
            <4>1. e \in Entry
                BY <1>1, <3>4, NewEntryType
            <4> QED BY <4>1 DEF NewEntry
        <3> HIDE DEF s1, e, t
        <3>6. t.vars = Append(s1.vars, e) /\ Clean(s1)
            <4>1. t.vars = Append(s1.vars, e) /\ t.diags = s1.diags
                BY <3>2, <3>3 DEF AddVar, State
            <4> QED BY <4>1 DEF Clean, t
        <3>7. Keeps(prog, x, y, s1.vars, line)
            <4>1. PassedOn(a.e)
                BY DEF LineTracked
            <4>2. TRUE \in BOOLEAN /\ Clean(CheckExpr(s, a.e, TRUE, line))
                BY <3>6 DEF s1
            <4> QED BY <1>1, <4>1, <4>2, ExprTies DEF s1
        <3>8. owner = 0
            <4>1. ~Copies(prog, a.e) /\ a.e.tag \notin {"addr", "refcall"}
                BY <2>2 DEF LineTracked, IsBorrow
            <4> QED BY <1>1, <4>1, RefersToNothing
        <3>9. b.owner = 0 /\ b.valid
            BY <3>8 DEF NewBox
        <3>10. SameLoans(s.vars, s1.vars) /\ SameLoans(s1.vars, s1.vars)
            BY <3>3, OnlyStatusLoans, OnlyStatusReflexive
        <3> HIDE DEF b, y
        <3> QED BY <3>3, <3>5, <3>6, <3>7, <3>9, <3>10
    <2> QED BY <2>1, <2>2
<1>5. PICK u \in Seq(Entry), e \in Entry, w \in Seq(Entry) :
        /\ t.vars = Append(u, e) /\ e.active /\ e.name = a.name /\ SameLoans(s.vars, u)
        /\ Keeps(prog, x, y, w, line) /\ SameLoans(s.vars, w) /\ SameLoans(w, u)
        /\ IF b.owner = 0 THEN b.valid ELSE Bound(prog, t.vars, Len(u) + 1, b, line)
    BY <1>4
<1> HIDE DEF t, y, ty, owner, b
<1>6. /\ y \in Run /\ y.fault = x.fault /\ y.cells \in Seq(Box) /\ Len(y.cells) = Len(s.vars)
      /\ Len(w) = Len(s.vars) /\ Len(u) = Len(s.vars)
    BY <1>1, <1>5, RunFields DEF Keeps, SameRefs, SameLoans
<1>7. Tied(prog, w, y.cells, line)
    BY <1>1, <1>5, <1>6, TiedAgain DEF Keeps
<1>8. Tied(prog, u, y.cells, line)
    BY <1>5, <1>6, <1>7, TiedSame
<1> DEFINE d == Append(y.cells, b)
<1>9. Tied(prog, t.vars, d, line)
    <2>1. Unnamed(u, e.name)
        <3>1. \A k \in DOMAIN u : k \in DOMAIN s.vars /\ u[k].name = s.vars[k].name
            BY <1>1, <1>5, <1>6 DEF SameLoans, Fixed
        <3> QED BY <1>5, <3>1 DEF Unnamed
    <2>2. IF b.owner = 0 THEN b.valid ELSE Bound(prog, Append(u, e), Len(u) + 1, b, line)
        BY <1>5
    <2> QED BY <1>2, <1>5, <1>6, <1>8, <2>1, <2>2, TiedAppend
<1>10. d \in Seq(Box)
    BY <1>2, <1>6
<1> HIDE DEF d
<1>11. Exec!Cells(y, d) \in Run /\ Exec!Cells(y, d).cells = d /\ Exec!Cells(y, d).fault = y.fault
    BY <1>6, <1>10, CellsAre
<1>12. Exec!RunLet(x, a) = Exec!Cells(y, d)
    BY <1>2 DEF d
<1> QED BY <1>6, <1>9, <1>11, <1>12 DEF Ties, t

-----------------------------------------------------------------------------
(* The statements other than `let'.                                        *)

(* What ends the references to a variable that is not lent harms no one.   *)
LEMMA UnlentFades ==
    ASSUME NEW p, NEW v \in Seq(Entry), NEW w \in Seq(Entry), NEW c \in Seq(Box), NEW line,
           Alive(p, w, c, line), OnlyStatus(v, w), NEW i \in DOMAIN v, ~Borrowed(v[i])
    PROVE  /\ Alive(p, w, Exec!InvalidateAll(c, i), line) /\ SameRefs(c, Exec!InvalidateAll(c, i))
           /\ Exec!InvalidateAll(c, i) \in Seq(Box)
<1> DEFINE d == Exec!InvalidateAll(c, i)
<1>1. Faded(c, d, i, DOMAIN c)
    BY InvalidationsFade
<1>2. w[i].shared = v[i].shared /\ w[i].mutBorrow = v[i].mutBorrow /\ i # 0
    BY DEF OnlyStatus
<1>3. ~Claimed(w, i, "mut") /\ ~Claimed(w, i, "shr")
    BY <1>2 DEF Claimed, Borrowed
<1>4. \A k \in DOMAIN c : k \in DOMAIN c /\ c[k].owner = i /\ IsReference(c[k].ty) => Over(w, k)
    BY <1>2, <1>3, UnclaimedIsOver DEF IsReference
<1> HIDE DEF d
<1>5. Alive(p, w, d, line) /\ SameRefs(c, d) /\ d \in Seq(Box)
    BY <1>1, <1>2, <1>4, FadedKeeps
<1> QED BY <1>5 DEF d

(* A variable that is assigned no longer refers to anything.               *)
LEMMA RevivedTies ==
    ASSUME NEW p, NEW u \in Seq(Entry), NEW c \in Seq(Box), NEW line, Len(c) = Len(u), Tied(p, u, c, line),
           NEW i \in DOMAIN u,
           NEW w, w = [u EXCEPT ![i].status = "Available"], w \in Seq(Entry),
           NEW d, d = [c EXCEPT ![i].moved = FALSE, ![i].valid = TRUE, ![i].owner = 0], d \in Seq(Box)
    PROVE  Tied(p, w, d, line)
<1> DEFINE e == [u[i] EXCEPT !.status = "Available"]
           b == [c[i] EXCEPT !.moved = FALSE, !.valid = TRUE, !.owner = 0]
<1>1. u[i] \in Entry /\ i \in DOMAIN c /\ c[i] \in Box
    OBVIOUS
<1>2. Fixed(u[i], e)
    BY <1>1 DEF Entry, Fixed
<1>3. b.owner = 0 /\ b.valid
    BY <1>1 DEF Box
<1>4. w = [u EXCEPT ![i] = e] /\ d = [c EXCEPT ![i] = b]
    BY <1>1
<1> HIDE DEF e, b
<1>5. Len(w) = Len(u) /\ \A k \in DOMAIN u : w[k] = IF k = i THEN e ELSE u[k]
    BY <1>4
<1>6. DOMAIN d = DOMAIN c /\ Len(d) = Len(c) /\ \A k \in DOMAIN c : d[k] = IF k = i THEN b ELSE c[k]
    BY <1>4
<1>7. SameLoans(u, w)
    <2>1. \A k \in DOMAIN u : Fixed(u[k], u[k])
        BY DEF Fixed
    <2> QED BY <1>2, <1>5, <2>1 DEF SameLoans
<1>8. Tied(p, u, d, line)
    <2> SUFFICES ASSUME NEW k \in DOMAIN d
                 PROVE  IF d[k].owner = 0 THEN d[k].valid ELSE Bound(p, u, k, d[k], line)
        BY DEF Tied
    <2>1. CASE k = i
        BY <1>1, <1>3, <1>6, <2>1
    <2>2. CASE k # i
        BY <1>6, <2>2 DEF Tied
    <2> QED BY <2>1, <2>2
<1> QED BY <1>6, <1>7, <1>8, TiedSame

LEMMA AssignTies ==
    ASSUME NEW s \in State, NEW x \in Run, InStep(s.vars, x.cells), Balanced(s.vars),
           NEW a \in Statement, a.tag = "assign",
           \A n \in Mentioned(a.e) : Named(s.vars, n), Named(s.vars, a.name),
           NEW line \in Nat, Clean(CheckAssign(s, a, line)),
           NEW p \in Seq(Statement), LineTracked(p, a), Tied(p, s.vars, x.cells, line),
           \A n \in Mentioned(a.e) : StillUsed(p, n, line)
    PROVE  Ties(p, x, Exec!RunAssign(x, a), CheckAssign(s, a, line).vars, line)
<1> DEFINE i == Find(s.vars, a.name)
           s1 == ReportIf(~s.vars[i].mutable, s, "E5004", a.name, line)
           s2 == ReportIf(Borrowed(s.vars[i]), s1, "E5002", a.name, line)
           s3 == CheckExpr(s2, a.e, TRUE, line)
           t == CheckAssign(s, a, line)
           y == Exec!RunExpr(x, a.e, TRUE)
           c == Exec!InvalidateAll(y.cells, i)
           d == [c EXCEPT ![i].moved = FALSE, ![i].valid = TRUE, ![i].owner = 0]
           w == [s3.vars EXCEPT ![i].status = "Available"]
<1>1. /\ a.name \in Names /\ a.e \in Expr /\ s.vars \in Seq(Entry) /\ x.cells \in Seq(Box)
      /\ Mirror(s.vars, x.cells) /\ Len(x.cells) = Len(s.vars)
    BY RunFields DEF Statement, State, InStep
<1>2. Exec!Lookup(x.cells, a.name) = i /\ i \in DOMAIN s.vars /\ i # 0
    BY <1>1, LookupIs
<1>3. s1 \in State /\ s1.vars = s.vars
    <2>1. Grows(s, s1) /\ s1.vars = s.vars
        <3>1. "E5004" \in Codes
            BY DEF Codes
        <3> QED BY <1>1, <3>1, ReportIfGrows
    <2> QED BY <2>1 DEF Grows
<1>4. s2 \in State /\ s2.vars = s.vars /\ (Borrowed(s.vars[i]) => ~Clean(s2))
    <2> HIDE DEF s1
    <2>1. Grows(s1, s2) /\ s2.vars = s1.vars
        <3>1. "E5002" \in Codes
            BY DEF Codes
        <3> QED BY <1>1, <1>3, <3>1, ReportIfGrows
    <2>2. Borrowed(s.vars[i]) => ~Clean(s2)
        BY <1>3, ReportIsNotClean DEF ReportIf
    <2> QED BY <1>3, <2>1, <2>2 DEF Grows
<1>5. t = [s3 EXCEPT !.vars[i].status = "Available"]
    BY <1>2 DEF CheckAssign
<1>6. Exec!Referent(x.cells, a.e) = 0
    <2>1. ~Copies(p, a.e) /\ a.e.tag \notin {"addr", "refcall"}
        BY DEF LineTracked
    <2> QED BY <1>1, <2>1, RefersToNothing
<1>7. Exec!RunAssign(x, a) = Exec!Cells(y, d)
    BY <1>2, <1>6 DEF Exec!RunAssign
<1> HIDE DEF s2, i
<1>8. s3 \in State /\ s3.vars \in Seq(Entry) /\ OnlyStatus(s2.vars, s3.vars) /\ Grows(s2, s3)
    BY <1>1, <1>4, CheckExprGrows, VarsOf, ExprOnlyMoves
<1>9. PassedOn(a.e)
    BY DEF LineTracked
<1> HIDE DEF t
<1>10. t.vars = w /\ Clean(s3)
    <2> HIDE DEF s3
    <2> QED BY <1>5, <1>8 DEF Clean, State, t
<1>11. ~Borrowed(s.vars[i])
    <2> HIDE DEF s3
    <2> QED BY <1>4, <1>8, <1>10, CleanBefore
<1>12. Ties(p, x, y, s3.vars, line) /\ Keeps(p, x, y, s3.vars, line)
    BY <1>1, <1>4, <1>9, <1>10, ExprTies
<1> HIDE DEF y, s3
<1>13. y \in Run /\ y.fault = x.fault /\ y.cells \in Seq(Box) /\ Len(y.cells) = Len(s.vars)
    BY <1>1, <1>12, RunFields DEF Keeps, SameRefs
<1>14. Len(s3.vars) = Len(s.vars) /\ i \in DOMAIN s3.vars
    BY <1>1, <1>2, <1>4, <1>8 DEF OnlyStatus
<1>15. Alive(p, s3.vars, c, line) /\ SameRefs(y.cells, c) /\ c \in Seq(Box)
    <2>1. Alive(p, s3.vars, y.cells, line) /\ OnlyStatus(s.vars, s3.vars)
        BY <1>4, <1>8, <1>12 DEF Keeps
    <2> QED BY <1>1, <1>2, <1>8, <1>11, <1>13, <2>1, UnlentFades
<1> HIDE DEF c
<1>16. Len(c) = Len(s3.vars)
    BY <1>13, <1>14, <1>15 DEF SameRefs
<1>17. Tied(p, s3.vars, c, line)
    <2>1. SameLoans(s3.vars, s3.vars)
        BY DEF SameLoans, Fixed
    <2>2. Tied(p, s3.vars, y.cells, line)
        BY <1>12 DEF Ties
    <2> QED BY <1>8, <1>13, <1>14, <1>15, <2>1, <2>2, TiedAgain
<1>18. d \in Seq(Box) /\ w \in Seq(Entry)
    <2>1. w \in Seq(Entry)
        <3> DEFINE e == [s3.vars[i] EXCEPT !.status = "Available"]
        <3>1. e \in Entry
            <4>1. s3.vars[i] \in Entry
                BY <1>8, <1>14
            <4> QED BY <4>1 DEF Entry
        <3>2. w = [s3.vars EXCEPT ![i] = e]
            OBVIOUS
        <3> HIDE DEF e, w
        <3> QED BY <1>8, <1>14, <3>1, <3>2
    <2>2. d \in Seq(Box)
        <3> DEFINE b == [c[i] EXCEPT !.moved = FALSE, !.valid = TRUE, !.owner = 0]
        <3>1. i \in DOMAIN c
            BY <1>8, <1>14, <1>15, <1>16
        <3>2. b \in Box
            <4>1. c[i] \in Box
                BY <1>15, <3>1
            <4> QED BY <4>1 DEF Box
        <3>3. d = [c EXCEPT ![i] = b]
            BY <3>1
        <3> HIDE DEF b, d
        <3> QED BY <1>15, <3>1, <3>2, <3>3
    <2> QED BY <2>1, <2>2
<1>19. Tied(p, w, d, line)
    BY <1>8, <1>14, <1>15, <1>16, <1>17, <1>18, RevivedTies
<1> HIDE DEF d, w
<1>20. Exec!Cells(y, d) \in Run /\ Exec!Cells(y, d).cells = d /\ Exec!Cells(y, d).fault = y.fault
    BY <1>13, <1>18, CellsAre
<1> QED BY <1>7, <1>10, <1>13, <1>19, <1>20 DEF Ties, t

(* What a mutable reference borrows, no other reference that is out does.  *)
LEMMA OnlyLoan ==
    ASSUME NEW p, NEW v \in Seq(Entry), NEW c \in Seq(Box), NEW line, InStep(v, c), Balanced(v), Tied(p, v, c, line),
           NEW i \in DOMAIN c, c[i].owner # 0, c[i].ty # "shr", ~Over(v, i)
    PROVE  \A k \in DOMAIN c : c[k].owner = c[i].owner /\ k # i => Over(v, k)
<1> SUFFICES ASSUME NEW k \in DOMAIN c, c[k].owner = c[i].owner, k # i, ~Over(v, k)
             PROVE  FALSE
    OBVIOUS
<1> DEFINE o == c[i].owner
<1>1. \A j \in DOMAIN c : /\ j \in DOMAIN v /\ v[j].active /\ v[j].borrowEnd \in Int /\ v[j].borrowMut \in BOOLEAN
                          /\ j <= Len(v)
    <2> SUFFICES ASSUME NEW j \in DOMAIN c
                 PROVE  /\ j \in DOMAIN v /\ v[j].active /\ v[j].borrowEnd \in Int /\ v[j].borrowMut \in BOOLEAN
                        /\ j <= Len(v)
        OBVIOUS
    <2>1. j \in DOMAIN v /\ j <= Len(v)
        BY DEF InStep
    <2>2. v[j] \in Entry
        BY <2>1
    <2>3. v[j].borrowEnd \in Int /\ v[j].borrowMut \in BOOLEAN
        BY <2>2 DEF Entry
    <2> QED BY <2>1, <2>3 DEF InStep, Mirror
<1>2. ASSUME NEW j \in DOMAIN c, c[j].owner = o, ~Over(v, j)
      PROVE  j \in Out(v, o, v[j].borrowMut) /\ o \in DOMAIN v /\ c[j].ty = RefType(v[j].borrowMut)
    <2>1. Bound(p, v, j, c[j], line) /\ v[j].borrowEnd >= 0 /\ ~(v[j].borrowEnd < 0)
        BY <1>1, <1>2 DEF Tied, Over
    <2>2. o = Find(v, v[j].source) /\ c[j].ty = RefType(v[j].borrowMut)
        BY <1>2, <2>1 DEF Bound
    <2>3. j \in Out(v, o, v[j].borrowMut)
        BY <1>1, <2>1, <2>2 DEF Out
    <2>4. o \in 1..(j - 1)
        BY <1>1, <2>1, <2>2 DEF Balanced, Lenders
    <2>5. o \in DOMAIN v
        BY <1>1, <2>4
    <2> QED BY <2>2, <2>3, <2>5
<1> HIDE DEF o
<1>3. i \in Out(v, o, TRUE) /\ o \in DOMAIN v
    <2>1. v[i].borrowMut = TRUE
        BY <1>1, <1>2 DEF RefType, o
    <2> QED BY <1>2, <2>1 DEF o
<1>4. k \in Out(v, o, TRUE) \/ k \in Out(v, o, FALSE)
    <2>1. v[k].borrowMut = TRUE \/ v[k].borrowMut = FALSE
        BY <1>1
    <2>2. k \in Out(v, o, v[k].borrowMut)
        BY <1>2 DEF o
    <2> QED BY <2>1, <2>2
<1>5. Out(v, o, FALSE) = {} /\ \E r : Out(v, o, TRUE) = {r}
    BY <1>3 DEF Balanced, Single
<1> QED BY <1>3, <1>4, <1>5

LEMMA MutationGranted ==
    ASSUME NEW s \in State, NEW n, NEW line, Find(s.vars, n) # 0, Clean(CheckMutation(s, n, line))
    PROVE  /\ s.vars[Find(s.vars, n)].ty # "shr"
           /\ s.vars[Find(s.vars, n)].ty # "mut" => ~Borrowed(s.vars[Find(s.vars, n)])
BY ReportIsNotClean DEF CheckMutation, ReportIf

LEMMA StoreTies ==
    ASSUME NEW s \in State, NEW x \in Run, InStep(s.vars, x.cells), Balanced(s.vars),
           NEW a \in Statement, a.tag = "store",
           \A n \in Mentioned(a.e) : Named(s.vars, n), Named(s.vars, a.name), a.name \notin Mentioned(a.e),
           NEW line \in Nat, Clean(CheckStore(s, a, line)),
           NEW p \in Seq(Statement), LineTracked(p, a), Tied(p, s.vars, x.cells, line),
           \A n \in Mentioned(a.e) \cup {a.name} : StillUsed(p, n, line)
    PROVE  Ties(p, x, Exec!RunStore(x, a), CheckStore(s, a, line).vars, line)
<1> DEFINE i == Find(s.vars, a.name)
           s1 == CheckMutation(s, a.name, line)
           place == CheckIdent(s1, a.name, FALSE, line)
           t == CheckStore(s, a, line)
           y == Exec!RunExpr(x, a.e, TRUE)
           d == Stored(y.cells, i)
           w == t.vars
<1>1. /\ a.name \in Names /\ a.e \in Expr /\ s.vars \in Seq(Entry) /\ x.cells \in Seq(Box)
      /\ Mirror(s.vars, x.cells) /\ Len(x.cells) = Len(s.vars)
    BY RunFields DEF Statement, State, InStep
<1>2. Exec!Lookup(x.cells, a.name) = i /\ i \in DOMAIN s.vars /\ i # 0 /\ s.vars[i].name = a.name
    BY <1>1, LookupIs
<1>3. s1 \in State /\ s1.vars = s.vars
    BY <1>1, CheckMutationGrows, MutationChangesNothing DEF Grows
<1>4. t = CheckExpr(place, a.e, TRUE, line)
    BY DEF CheckStore
<1> HIDE DEF s1
<1>5. place \in State /\ Grows(place, t) /\ Grows(s1, place)
    BY <1>1, <1>3, <1>4, CheckIdentGrows, CheckExprGrows DEF Grows
<1>6. Clean(place) /\ Clean(s1)
    BY <1>5, CleanBefore
<1>7. place = s1 /\ s.vars[i].status # "Moved"
    BY <1>2, <1>3, <1>6, ReportIsNotClean DEF CheckIdent
<1>8. s.vars[i].ty # "shr" /\ (s.vars[i].ty # "mut" => ~Borrowed(s.vars[i]))
    <2>1. Clean(CheckMutation(s, a.name, line)) /\ Find(s.vars, a.name) # 0
        BY <1>2, <1>6 DEF s1
    <2> QED BY <2>1, MutationGranted
<1> HIDE DEF place, t
<1>9. StaysInStep(x, Exec!RunStore(x, a), w) /\ PassedOn(a.e)
    BY StoreGoes DEF LineTracked, t
<1>10. Ties(p, x, y, w, line) /\ Keeps(p, x, y, w, line) /\ Mirror(w, y.cells)
    <2>1. Clean(CheckExpr(place, a.e, TRUE, line))
        BY <1>4 DEF t
    <2>2. InStep(place.vars, x.cells) /\ Balanced(place.vars) /\ Tied(p, place.vars, x.cells, line)
        BY <1>3, <1>7
    <2>3. \A n \in Mentioned(a.e) : Named(place.vars, n)
        BY <1>3, <1>7
    <2>4. Ties(p, x, y, w, line) /\ Keeps(p, x, y, w, line)
        BY <1>1, <1>4, <1>5, <1>9, <2>1, <2>2, <2>3, ExprTies
    <2>5. Mirror(w, y.cells)
        BY <1>1, <1>3, <1>4, <1>5, <1>7, <2>1, <2>2, <2>3, ExprGoes
    <2> QED BY <2>4, <2>5
<1>11. OnlyStatus(s.vars, w) /\ w \in Seq(Entry) /\ Untouched(s.vars, w, Mentioned(a.e)) /\ Len(w) = Len(s.vars)
    <2>1. OnlyStatus(s.vars, w) /\ w \in Seq(Entry) /\ Untouched(s.vars, w, Mentioned(a.e))
        BY <1>1, <1>3, <1>4, <1>5, <1>7, ExprOnlyMoves, ExprTouches, VarsOf
    <2> QED BY <2>1 DEF OnlyStatus
<1> HIDE DEF w, y, i
<1>12. y \in Run /\ y.cells \in Seq(Box) /\ Len(y.cells) = Len(w) /\ y.fault = x.fault
    BY <1>1, <1>10, <1>11, RunFields DEF Keeps, SameRefs
<1>13. i \in DOMAIN w /\ i \in DOMAIN y.cells /\ w[i].status # "Moved" /\ w[i].name = a.name /\ w[i].ty = s.vars[i].ty
    <2>1. w[i].status = s.vars[i].status
        BY <1>2, <1>11 DEF Untouched
    <2>2. i \in DOMAIN w /\ i \in DOMAIN y.cells
        BY <1>1, <1>2, <1>11, <1>12
    <2>3. w[i].name = a.name /\ w[i].ty = s.vars[i].ty
        BY <1>2, <1>11 DEF OnlyStatus, Fixed
    <2> QED BY <1>7, <2>1, <2>2, <2>3
<1>14. ~y.cells[i].moved /\ y.cells[i].ty = s.vars[i].ty
    BY <1>10, <1>13 DEF Mirror
<1>15. Alive(p, w, y.cells, line) /\ Tied(p, w, y.cells, line)
    BY <1>10 DEF Keeps, Ties
<1>16. ~(LastUse(p, a.name) < line)
    <2> DEFINE l == LastUse(p, a.name)
    <2>1. l \in Nat /\ line <= l
        BY LastUseType DEF StillUsed
    <2> HIDE DEF l
    <2> QED BY <2>1 DEF l
<1>17. Exec!Touch(y, i) = y
    BY <1>11, <1>12, <1>13, <1>14, <1>15, GoodToUse
<1>18. Exec!RunStore(x, a) = Exec!Cells(y, d)
    BY <1>2, <1>17, StoreIs DEF y
<1>19. Balanced(w) /\ InStep(w, y.cells)
    BY <1>1, <1>10, <1>11, <1>12, SameOut DEF InStep
<1>20. Alive(p, w, d, line) /\ SameRefs(y.cells, d) /\ d \in Seq(Box)
    <2>1. CASE ~IsReference(y.cells[i].ty)
        <3>1. ~Borrowed(s.vars[i])
            BY <1>8, <1>14, <2>1 DEF IsReference
        <3>2. d = Exec!InvalidateAll(y.cells, i)
            BY <2>1 DEF Stored
        <3> QED BY <1>1, <1>2, <1>11, <1>12, <1>15, <3>1, <3>2, UnlentFades
    <2>2. CASE IsReference(y.cells[i].ty) /\ y.cells[i].owner = 0
        <3>1. d = y.cells
            BY <2>2 DEF Stored
        <3> QED BY <1>12, <1>15, <3>1 DEF SameRefs
    <2>3. CASE IsReference(y.cells[i].ty) /\ y.cells[i].owner # 0
        <3> DEFINE o == y.cells[i].owner
                   others == {k \in DOMAIN y.cells : k # i}
        <3>1. d = InvalidateOthers(y.cells, o, i)
            BY <2>3 DEF Stored
        <3>2. Faded(y.cells, d, o, others)
            BY <1>12, <3>1, InvalidationsFade
        <3>3. ~Over(w, i)
            BY <1>13, <1>15, <1>16, <2>3 DEF Alive
        <3>4. \A k \in DOMAIN y.cells : y.cells[k].owner = o /\ k # i => Over(w, k)
            BY <1>8, <1>11, <1>12, <1>13, <1>14, <1>15, <1>19, <2>3, <3>3, OnlyLoan
        <3>5. \A k \in DOMAIN y.cells : k \in others /\ y.cells[k].owner = o /\ IsReference(y.cells[k].ty) => Over(w, k)
            BY <3>4
        <3>6. o # 0
            BY <2>3
        <3> HIDE DEF d, o, others
        <3> QED BY <1>12, <1>15, <3>2, <3>5, <3>6, FadedKeeps
    <2> QED BY <2>1, <2>2, <2>3
<1> HIDE DEF d
<1>21. Tied(p, w, d, line)
    <2>1. SameLoans(w, w)
        BY DEF SameLoans, Fixed
    <2> QED BY <1>11, <1>12, <1>15, <1>20, <2>1, TiedAgain
<1>22. Exec!Cells(y, d) \in Run /\ Exec!Cells(y, d).cells = d /\ Exec!Cells(y, d).fault = y.fault
    BY <1>12, <1>20, CellsAre
<1> QED BY <1>12, <1>18, <1>21, <1>22 DEF Ties, w, t

(* A return may only end in a reference that escapes.                      *)
LEMMA ReturnTies ==
    ASSUME NEW s \in State, NEW x \in Run, InStep(s.vars, x.cells), Balanced(s.vars),
           NEW a \in Statement, a.tag = "return_expr",
           \A n \in Mentioned(a.e) : Named(s.vars, n),
           NEW line \in Nat, Clean(CheckReturnExpr(s, a, line)),
           NEW p \in Seq(Statement), LineTracked(p, a), Tied(p, s.vars, x.cells, line),
           \A n \in Mentioned(a.e) : StillUsed(p, n, line)
    PROVE  /\ Ties(p, x, Exec!RunExpr(x, a.e, ~IsReference(ReturnType)), CheckReturnExpr(s, a, line).vars, line)
           /\ Clean(CheckReturn(s, a.e, line))
<1> DEFINE consume == ~IsReference(ReturnType)
           s1 == CheckReturn(s, a.e, line)
           s2 == CheckExpr(s1, a.e, consume, line)
           t == CheckReturnExpr(s, a, line)
           y == Exec!RunExpr(x, a.e, consume)
<1>1. a.e \in Expr /\ consume \in BOOLEAN /\ PassedOn(a.e)
    BY DEF Statement, IsReference, LineTracked
<1>2. s1 \in State /\ s1.vars = s.vars
    <2>1. \A code, n : Report(s, code, n, line).vars = s.vars
        BY DEF Report, State
    <2>2. s1.vars = s.vars
        BY <2>1 DEF CheckReturn, ReportIf
    <2> QED BY <1>1, <2>2, CheckReturnGrows DEF Grows
<1>3. t = [s2 EXCEPT !.terminated = TRUE]
    BY DEF CheckReturnExpr
<1> HIDE DEF s1
<1>4. s2 \in State /\ Grows(s1, s2)
    BY <1>1, <1>2, CheckExprGrows DEF Grows
<1>5. t.vars = s2.vars /\ Clean(s2)
    <2> HIDE DEF s2, t
    <2> QED BY <1>3, <1>4 DEF Clean, State, t
<1>6. Ties(p, x, y, s2.vars, line)
    BY <1>1, <1>2, <1>5, ExprTies
<1>7. Clean(s1)
    BY <1>4, <1>5, CleanBefore
<1> HIDE DEF y, s2, t
<1> QED BY <1>5, <1>6, <1>7 DEF y, t, s1

-----------------------------------------------------------------------------
(***************************************************************************)
(* Where a reference that is returned points.  The entries of globals and  *)
(* parameters are the first ones and say so; a program that takes no       *)
(* reference to a parameter that is a reference itself borrows from one of *)
(* them only what the caller still has.                                    *)
(***************************************************************************)
Origins(v) ==
    /\ Len(Params) <= Len(v)
    /\ \A k \in DOMAIN v : IF k <= Len(Params)
                           THEN v[k].name = Params[k].name /\ v[k].param = Params[k].param /\ v[k].ty = Params[k].ty
                           ELSE v[k].param = 0
(* What a parameter that is a reference holds is the caller's, the         *)
(* parameter itself is a local: the program takes no reference to it.      *)
RefParams == {Params[i].name : i \in {j \in DOMAIN Params : Params[j].param = 1 /\ IsReference(Params[j].ty)}}
ReturnedNames(p) == {p[k].e.name : k \in {j \in DOMAIN p : p[j].tag = "return_expr" /\ p[j].e.tag = "addr"}}
NoRefRef(p) == \A n \in Sources(p) \cup ReturnedNames(p) : n \notin RefParams
Abroads == [i \in DOMAIN Params |->
               [name |-> Params[i].name, ty |-> Params[i].ty, global |-> Params[i].param = 2]]
Abroad(to) == to <= Len(Params) /\ Params[to].param = 2

LEMMA OriginsSame ==
    ASSUME NEW v, NEW w, Len(w) = Len(v), Origins(v),
           \A k \in DOMAIN v : w[k].name = v[k].name /\ w[k].param = v[k].param /\ w[k].ty = v[k].ty,
           v \in Seq(Entry), w \in Seq(Entry)
    PROVE  Origins(w)
<1>1. DOMAIN w = DOMAIN v
    OBVIOUS
<1> QED BY <1>1 DEF Origins

LEMMA OriginsAppend ==
    ASSUME NEW v \in Seq(Entry), Origins(v), NEW e \in Entry, e.param = 0
    PROVE  Origins(Append(v, e))
<1> DEFINE w == Append(v, e)
           n == Len(v)
           m == Len(Params)
<1>1. m \in Nat /\ n \in Nat /\ m <= n
    BY ParamsAssumption DEF Origins
<1>2. /\ Len(w) = n + 1 /\ DOMAIN w = 1..(n + 1) /\ DOMAIN v = 1..n /\ w[n + 1] = e
      /\ \A k \in 1..n : w[k] = v[k]
    OBVIOUS
<1> HIDE DEF w, n, m
<1>3. ASSUME NEW k \in DOMAIN w
      PROVE  IF k <= m THEN w[k].name = Params[k].name /\ w[k].param = Params[k].param /\ w[k].ty = Params[k].ty
             ELSE w[k].param = 0
    <2>1. k \in 1..n \/ (k = n + 1 /\ ~(k <= m))
        BY <1>1, <1>2
    <2>2. CASE k \in 1..n
        BY <1>2, <2>2 DEF Origins, m
    <2> QED BY <1>2, <2>1, <2>2
<1>4. m <= Len(w)
    BY <1>1, <1>2
<1> QED BY <1>3, <1>4 DEF Origins, w, m

LEMMA LetOrigins ==
    ASSUME NEW s \in State, NEW x \in Statement, x.tag = "let", NEW line \in Nat, Origins(s.vars),
           prog \in Seq(Statement)
    PROVE  Origins(CheckLet(s, x, line).vars)
<1>1. x.name \in Names /\ x.ty \in Types /\ x.mutable \in BOOLEAN /\ x.e \in Expr /\ s.vars \in Seq(Entry)
    BY DEF Statement, State
<1>2. PICK u \in Seq(Entry) :
              /\ OnlyStatus(s.vars, u)
              /\ IF IsBorrow(x) THEN CheckLet(s, x, line).vars = LetVars(u, x, line)
                 ELSE \E e : /\ BorrowsNothing(e, x.name)
                             /\ CheckLet(s, x, line).vars = Append(u, e)
    BY LetAppends
<1>3. Origins(u)
    BY <1>1, <1>2, OriginsSame DEF OnlyStatus, Fixed
<1>4. CASE IsBorrow(x)
    <2> DEFINE src == x.e.name
               bm == BorrowsMut(x)
               g == Lender(u, src, bm)
               e == LentEntry(u, x.name, x.mutable, src, bm, line)
               w == Lent(u, g, bm)
    <2>1. src \in Names /\ bm \in BOOLEAN
        BY <1>1, <1>4 DEF Expr, SimpleExpr, IsBorrow, BorrowsMut
    <2>2. e \in Entry
        BY <1>1, <2>1, LentEntryIs
    <2>a. e.param = 0
        BY DEF LentEntry, NewRefEntry, NewEntry
    <2>3. CheckLet(s, x, line).vars = Append(w, e)
        BY <1>2, <1>4 DEF LetVars, LentVars
    <2>4. g \in 0..Len(u)
        BY LenderType
    <2> HIDE DEF g, e, bm, src
    <2>5. Counted(u, w, g, bm)
        BY <2>1, <2>4, LentIs
    <2> HIDE DEF w
    <2>6. w \in Seq(Entry) /\ Origins(w)
        BY <1>3, <2>5, OriginsSame DEF Counted, Fixed
    <2> QED BY <2>2, <2>a, <2>3, <2>6, OriginsAppend
<1>5. CASE ~IsBorrow(x)
    <2>1. \E t, e : CheckLet(s, x, line) = AddVar(t, e) /\ e.param = 0 /\ t \in State
        <3>1. \A n, ty, m, src, bm, end : NewRefEntry(n, ty, m, src, bm, end).param = 0
            BY DEF NewRefEntry, NewEntry
        <3>2. \A n, ty, m : NewEntry(n, ty, m, 0).param = 0
            BY DEF NewEntry
        <3>3. CheckExpr(s, x.e, FALSE, line) \in State /\ CheckExpr(s, x.e, TRUE, line) \in State
            BY <1>1, CheckExprGrows DEF Grows
        <3>4. CASE x.e.tag = "call" /\ IsReference(x.ty)
            <4> DEFINE r == CheckExpr(s, x.e, FALSE, line)
                       q == Report(r, "E5008", NoName, line)
                       e == NewRefEntry(x.name, x.ty, x.mutable, NoName, FALSE, Released)
            <4>1. CheckLet(s, x, line) = AddVar(q, e)
                BY <3>4 DEF CheckLet
            <4>2. "E5008" \in Codes /\ NoName \in Names \cup {NoName}
                BY DEF Codes
            <4>3. q \in State
                BY <3>3, <4>2, ReportGrows DEF Grows
            <4>4. e.param = 0
                BY <3>1
            <4> HIDE DEF q, e
            <4> QED BY <4>1, <4>3, <4>4
        <3>5. CASE ~(x.e.tag = "call" /\ IsReference(x.ty))
            <4> DEFINE t == CheckExpr(s, x.e, TRUE, line)
                       et == IF x.e.tag = "ident" THEN TypeOf(s.vars, x.e.name) ELSE x.ty
                       e == NewEntry(x.name, et, x.mutable, 0)
            <4>1. CheckLet(s, x, line) = AddVar(t, e)
                BY <1>5, <3>5 DEF CheckLet, IsBorrow
            <4>2. e.param = 0 /\ t \in State
                BY <3>2, <3>3
            <4> HIDE DEF t, e
            <4> QED BY <4>1, <4>2
        <3> QED BY <3>4, <3>5
    <2>2. PICK t, e : CheckLet(s, x, line) = AddVar(t, e) /\ e.param = 0 /\ t \in State
        BY <2>1
    <2>3. CheckLet(s, x, line).vars = Append(t.vars, e) /\ t.vars \in Seq(Entry)
        BY <2>2 DEF AddVar, State
    <2>4. PICK f : BorrowsNothing(f, x.name) /\ CheckLet(s, x, line).vars = Append(u, f)
        BY <1>2, <1>5
    <2>5. f \in Entry /\ Append(t.vars, e) = Append(u, f)
        BY <2>3, <2>4 DEF BorrowsNothing
    <2>6. e = f
        <3> DEFINE n == Len(u)
        <3>1. Len(Append(t.vars, e)) = Len(t.vars) + 1 /\ Len(Append(u, f)) = n + 1
            BY <2>3
        <3>2. Append(t.vars, e)[Len(t.vars) + 1] = e /\ Append(u, f)[n + 1] = f
            BY <2>3
        <3>3. Len(t.vars) \in Nat /\ n \in Nat
            BY <2>3
        <3>4. Len(t.vars) = n
            BY <2>5, <3>1, <3>3
        <3> QED BY <2>5, <3>2, <3>4
    <2> QED BY <1>3, <2>2, <2>4, <2>5, <2>6, OriginsAppend
<1> QED BY <1>4, <1>5

LEMMA SimpleOrigins ==
    ASSUME NEW s \in State, NEW x \in Statement, NEW line \in Nat, Origins(s.vars), prog \in Seq(Statement)
    PROVE  Origins(Expire(s, line).vars) /\ Origins(CheckSimple(Expire(s, line), x, line).vars)
<1> DEFINE t == Expire(s, line)
<1>1. Expired(s.vars, t.vars, Due(s.vars, line)) /\ t \in State /\ s.vars \in Seq(Entry) /\ t.vars \in Seq(Entry)
    BY ExpireIs, ExpireGrows DEF State, Grows
<1> HIDE DEF t
<1>2. Origins(t.vars)
    BY <1>1, OriginsSame DEF Expired, Kin, SameReference
<1>3. CASE x.tag = "let"
    BY <1>1, <1>2, <1>3, LetOrigins DEF CheckSimple, t
<1>4. CASE x.tag # "let"
    <2>1. OnlyStatus(t.vars, CheckSimple(t, x, line).vars)
        BY <1>1, <1>4, OthersOnlyMove
    <2>2. CheckSimple(t, x, line).vars \in Seq(Entry)
        BY <1>1, CheckSimpleGrows, VarsOf
    <2>3. Origins(CheckSimple(t, x, line).vars)
        BY <1>1, <1>2, <2>1, <2>2, OriginsSame DEF OnlyStatus, Fixed
    <2> QED BY <1>2, <2>3 DEF t
<1> QED BY <1>2, <1>3, <1>4 DEF t

(* An entry that outlives the call and is not itself a reference from the  *)
(* caller is a global.                                                     *)
LEMMA OutlivesAbroad ==
    ASSUME NEW v \in Seq(Entry), Origins(v), NEW i \in DOMAIN v, Outlives(v[i]), v[i].name \notin RefParams
    PROVE  Abroad(i)
<1>1. Len(Params) \in Nat /\ i \in Nat
    BY ParamsAssumption
<1>2. v[i].param # 0
    BY DEF Outlives
<1>3. i <= Len(Params) /\ v[i].name = Params[i].name /\ v[i].param = Params[i].param /\ v[i].ty = Params[i].ty
    BY <1>2 DEF Origins
<1>4. i \in DOMAIN Params
    BY <1>1, <1>3, ParamsAssumption
<1>5. ~(Params[i].param = 1 /\ IsReference(Params[i].ty))
    BY <1>3, <1>4 DEF RefParams
<1> QED BY <1>3, <1>5 DEF Outlives, Abroad

LEMMA ReturnChecked ==
    ASSUME NEW s \in State, NEW e, NEW line, IsReference(ReturnType), Clean(CheckReturn(s, e, line))
    PROVE  /\ ReturnSource(s, e) # NoName /\ Find(s.vars, ReturnSource(s, e)) # 0
           /\ Outlives(s.vars[Find(s.vars, ReturnSource(s, e))])
BY ReportIsNotClean DEF CheckReturn, ReportIf

LEMMA StaysHome ==
    ASSUME NEW s \in State, NEW x \in Run, InStep(s.vars, x.cells),
           NEW p \in Seq(Statement), NEW line \in DOMAIN p, NEW a \in Statement, a = p[line], a.tag = "return_expr",
           \A n \in Mentioned(a.e) : Named(s.vars, n),
           Clean(CheckReturn(s, a.e, line)), Tied(p, s.vars, x.cells, line),
           Origins(s.vars), NoRefRef(p)
    PROVE  Exec!RunReturn(x, a.e) = Exec!RunExpr(x, a.e, ~IsReference(ReturnType))
<1> DEFINE e == a.e
           to == Exec!Referent(x.cells, e)
           src == ReturnSource(s, e)
           v == s.vars
           c == x.cells
<1>1. v \in Seq(Entry) /\ c \in Seq(Box) /\ e \in Expr /\ Mirror(v, c) /\ Len(c) = Len(v)
    BY RunFields DEF State, InStep, Statement
<1>2. ASSUME IsReference(ReturnType), to # 0 PROVE Abroad(to)
    <2>1. src # NoName /\ Find(v, src) # 0 /\ Outlives(v[Find(v, src)])
        BY <1>2, ReturnChecked
    <2>2. to = Find(v, src) /\ src \in Names /\ src \notin RefParams
        <3>1. CASE e.tag = "addr"
            <4>1. src = e.name /\ e.name \in Names /\ to = Exec!Lookup(c, e.name)
                BY <1>1, <3>1 DEF ReturnSource, Exec!Referent, Expr, SimpleExpr
            <4>2. e.name \in ReturnedNames(p)
                BY <3>1 DEF ReturnedNames
            <4> QED BY <1>1, <4>1, <4>2, LookupIs DEF NoRefRef
        <3>2. CASE e.tag = "ident"
            <4> DEFINE j == Find(v, e.name)
            <4>1. e.name \in Names /\ Named(v, e.name)
                BY <1>1, <3>2 DEF Expr, SimpleExpr, Mentioned, SimpleMentioned
            <4>2. Exec!Lookup(c, e.name) = j /\ j \in DOMAIN c /\ j \in DOMAIN v /\ j # 0
                BY <1>1, <4>1, LookupIs
            <4>3. to = c[j].owner
                BY <3>2, <4>2 DEF Exec!Referent
            <4>a. src = LET f == v[j] IN IF f.source # NoName THEN f.source
                        ELSE IF IsReference(f.ty) THEN e.name ELSE NoName
                BY <3>2, <4>2 DEF ReturnSource
            <4> HIDE DEF j, to, src
            <4>4. Bound(p, v, j, c[j], line)
                BY <1>2, <4>2, <4>3 DEF Tied
            <4>5. v[j].source \in Sources(p) /\ to = Find(v, v[j].source)
                BY <4>3, <4>4 DEF Bound
            <4>6. v[j].source \in Names
                <5>1. v[j].source \in Names \cup {NoName}
                    <6>1. v[j] \in Entry
                        BY <1>1, <4>2
                    <6> QED BY <6>1 DEF Entry
                <5>2. v[j].source # NoName
                    <6>1. \A k \in BorrowLines(p) : p[k].e.name \in Names
                        <7> SUFFICES ASSUME NEW k \in BorrowLines(p) PROVE p[k].e.name \in Names
                            OBVIOUS
                        <7>1. k \in DOMAIN p /\ Borrowing(p[k]) /\ p[k] \in Statement
                            BY DEF BorrowLines
                        <7>2. p[k].e \in Expr /\ p[k].e.tag \in {"addr", "refcall"}
                            BY <7>1 DEF Borrowing, Statement
                        <7> QED BY <7>2 DEF Expr, SimpleExpr
                    <6>2. \A n \in Sources(p) : n \in Names
                        BY <6>1 DEF Sources
                    <6> QED BY <4>5, <6>2, NamesAssumption
                <5> QED BY <5>1, <5>2
            <4>7. src = v[j].source
                BY <4>a, <4>6, NamesAssumption
            <4> QED BY <4>5, <4>6, <4>7 DEF NoRefRef
        <3>3. CASE e.tag \notin {"addr", "ident"}
            BY <2>1, <3>3 DEF ReturnSource
        <3> QED BY <3>1, <3>2, <3>3
    <2>3. Find(v, src) \in DOMAIN v /\ v[Find(v, src)].name = src
        <3> HIDE DEF src, v
        <3>1. Find(v, src) \in {i \in DOMAIN v : v[i].active /\ v[i].name = src} \cup {0}
            BY <1>1, ExtremeType DEF Find
        <3> QED BY <2>1, <3>1
    <2> HIDE DEF to, src, v
    <2> QED BY <1>1, <2>1, <2>2, <2>3, OutlivesAbroad DEF v
<1>3. to \in Nat
    <2>1. "own" \in Types
        BY DEF Types
    <2> QED BY <1>1, <2>1, ValueIs
<1> HIDE DEF to, src, v, c
<1>4. Len(Abroads) = Len(Params) /\ (Abroad(to) /\ to # 0 => to <= Len(Abroads) /\ Abroads[to].global)
    <2>1. DOMAIN Params = 1..Len(Params) /\ Len(Params) \in Nat
        BY ParamsAssumption
    <2>2. Len(Abroads) = Len(Params)
        BY <2>1 DEF Abroads
    <2>3. ASSUME Abroad(to), to # 0 PROVE to <= Len(Abroads) /\ Abroads[to].global
        <3>1. to \in DOMAIN Params
            BY <1>3, <2>1, <2>3 DEF Abroad
        <3> QED BY <2>2, <2>3, <3>1 DEF Abroads, Abroad
    <2> QED BY <2>2, <2>3
<1>5. Exec!RunReturn(x, e) =
        LET y == Exec!RunExpr(x, e, ~IsReference(ReturnType))
        IN  IF IsReference(ReturnType) /\ to # 0 /\ ~(to <= Len(Abroads) /\ Abroads[to].global)
            THEN Exec!Raise(y, "escape") ELSE y
    BY SameReading DEF Exec!RunReturn, Abroads, to, c
<1> QED BY <1>2, <1>4, <1>5

-----------------------------------------------------------------------------
(* A line of the run: what it may end in, and what the next line finds.    *)
Safe(p, f) ==
    /\ f # "moved"
    /\ Tracked(p) => f # "stale" /\ (NoRefRef(p) => f # "escape")
LineEnds(p, x, y, w, line) ==
    /\ y.fault \in {x.fault, "escape"} /\ (NoRefRef(p) => y.fault = x.fault)
    /\ Tied(p, w, y.cells, line + 1)

LEMMA TiesFollow ==
    ASSUME NEW p \in Seq(Statement), NEW x, NEW y, NEW w, NEW line \in Nat, Ties(p, x, y, w, line)
    PROVE  LineEnds(p, x, y, w, line)
<1>1. Tied(p, w, y.cells, line + 1)
    BY TiedLater DEF Ties
<1> QED BY <1>1 DEF Ties, LineEnds

LEMMA SimpleTies ==
    ASSUME NEW s \in State, NEW x \in Run, InStep(s.vars, x.cells), Balanced(s.vars), Origins(s.vars),
           prog \in Seq(Statement), NEW line \in DOMAIN prog, NEW a \in Statement, prog[line] = a,
           a.tag \in SimpleTags, Declared(s.vars, a), a.tag = "let" => Unnamed(s.vars, a.name),
           LineTracked(prog, a), Tied(prog, s.vars, x.cells, line), Clean(CheckSimple(s, a, line))
    PROVE  LineEnds(prog, x, Exec!RunSimple(x, a), CheckSimple(s, a, line).vars, line)
<1> DEFINE w == CheckSimple(s, a, line).vars
           y == Exec!RunSimple(x, a)
<1>1. line \in Nat /\ \A n \in Mentions(a) : StillUsed(prog, n, line) /\ Named(s.vars, n)
    BY MentionedIsUsed DEF Declared
<1>2. a.tag \in {"let", "assign", "store", "use", "return_expr"} =>
        a.e \in Expr /\ \A n \in Mentioned(a.e) : n \in Mentions(a)
    BY DEF Statement, Mentions
<1>3. CASE a.tag = "let"
    <2>1. Clean(CheckLet(s, a, line)) /\ w = CheckLet(s, a, line).vars /\ y = Exec!RunLet(x, a)
        BY <1>3 DEF CheckSimple, Exec!RunSimple
    <2>2. Ties(prog, x, y, w, line)
        BY <1>1, <1>2, <1>3, <2>1, LetTies
    <2> QED BY <1>1, <2>2, TiesFollow
<1>4. CASE a.tag = "assign"
    <2>1. Clean(CheckAssign(s, a, line)) /\ w = CheckAssign(s, a, line).vars /\ y = Exec!RunAssign(x, a)
        BY <1>4 DEF CheckSimple, Exec!RunSimple
    <2>2. Named(s.vars, a.name)
        BY <1>4 DEF Declared
    <2>3. Ties(prog, x, y, w, line)
        BY <1>1, <1>2, <1>4, <2>1, <2>2, AssignTies
    <2> QED BY <1>1, <2>3, TiesFollow
<1>5. CASE a.tag = "store"
    <2>1. Clean(CheckStore(s, a, line)) /\ w = CheckStore(s, a, line).vars /\ y = Exec!RunStore(x, a)
        BY <1>5 DEF CheckSimple, Exec!RunSimple
    <2>2. a.name \in Mentions(a) /\ a.name \notin Mentioned(a.e)
        BY <1>5 DEF Declared, Mentions
    <2>3. Ties(prog, x, y, w, line)
        BY <1>1, <1>2, <1>5, <2>1, <2>2, StoreTies
    <2> QED BY <1>1, <2>3, TiesFollow
<1>6. CASE a.tag = "use"
    <2>1. /\ Clean(CheckExpr(s, a.e, FALSE, line)) /\ w = CheckExpr(s, a.e, FALSE, line).vars
          /\ y = Exec!RunExpr(x, a.e, FALSE) /\ PassedOn(a.e)
        BY <1>6 DEF CheckSimple, Exec!RunSimple, LineTracked
    <2>2. Ties(prog, x, y, w, line)
        BY <1>1, <1>2, <1>6, <2>1, ExprTies
    <2> QED BY <1>1, <2>2, TiesFollow
<1>7. CASE a.tag = "return_expr"
    <2> DEFINE z == Exec!RunExpr(x, a.e, ~IsReference(ReturnType))
    <2>1. Clean(CheckReturnExpr(s, a, line)) /\ w = CheckReturnExpr(s, a, line).vars /\ y = Exec!RunReturn(x, a.e)
        BY <1>7 DEF CheckSimple, Exec!RunSimple
    <2>2. Ties(prog, x, z, w, line) /\ Clean(CheckReturn(s, a.e, line))
        BY <1>1, <1>2, <1>7, <2>1, ReturnTies
    <2>3. NoRefRef(prog) => y = z
        BY <1>1, <1>2, <1>7, <2>1, <2>2, StaysHome
    <2>4. y = z \/ y = Exec!Raise(z, "escape")
        BY <2>1, SameReading DEF Exec!RunReturn
    <2>5. LineEnds(prog, x, z, w, line) /\ z \in Run
        BY <1>1, <2>2, TiesFollow DEF Ties
    <2> HIDE DEF z, y, w
    <2>6. Exec!Raise(z, "escape").cells = z.cells /\ Exec!Raise(z, "escape").fault \in {z.fault, "escape"}
        BY <2>5 DEF Exec!Raise, Run
    <2> QED BY <2>3, <2>4, <2>5, <2>6 DEF LineEnds, y, w
<1>8. CASE a.tag \notin {"let", "assign", "store", "use", "return_expr"}
    <2>1. y = x /\ w = s.vars
        BY <1>8 DEF CheckSimple, Exec!RunSimple, State
    <2>2. Ties(prog, x, y, w, line)
        BY <2>1 DEF Ties
    <2> QED BY <1>1, <2>2, TiesFollow
<1> QED BY <1>3, <1>4, <1>5, <1>6, <1>7, <1>8
-----------------------------------------------------------------------------
(* Statements neither start nor stop the walk, a return apart.             *)
SameEnd(s, t) == t \in State /\ t.terminated = s.terminated

LEMMA VarsEnd ==
    ASSUME NEW s \in State, NEW v
    PROVE  [s EXCEPT !.vars = v].terminated = s.terminated
BY DEF State

LEMMA ReportEnd ==
    ASSUME NEW s \in State, NEW code, NEW n, NEW line, NEW cond
    PROVE  /\ Report(s, code, n, line).terminated = s.terminated
           /\ ReportIf(cond, s, code, n, line).terminated = s.terminated
BY DEF Report, ReportIf, State

LEMMA BorrowEnd ==
    ASSUME NEW s \in State, NEW n \in Names, NEW m \in BOOLEAN, NEW line \in Nat
    PROVE  SameEnd(s, CreateBorrow(s, n, m, line))
<1>1. CreateBorrow(s, n, m, line).terminated = s.terminated
    BY ReportEnd DEF CreateBorrow, State
<1> QED BY <1>1, CreateBorrowGrows DEF Grows, SameEnd

LEMMA SimpleExprEnd ==
    ASSUME NEW s \in State, NEW e \in SimpleExpr, NEW consume \in BOOLEAN, NEW line \in Nat
    PROVE  SameEnd(s, CheckSimpleExpr(s, e, consume, line))
<1>1. CASE e.tag = "ident"
    <2>1. CheckIdent(s, e.name, consume, line).terminated = s.terminated
        BY ReportEnd DEF CheckIdent, State
    <2> QED BY <1>1, <2>1, CheckSimpleExprGrows DEF CheckSimpleExpr, Grows, SameEnd
<1>2. CASE e.tag = "addr"
    <2>1. e.name \in Names /\ e.mutable \in BOOLEAN
        BY <1>2 DEF SimpleExpr
    <2>2. SameEnd(s, CreateBorrow(s, e.name, e.mutable, line))
        BY <2>1, BorrowEnd
    <2>3. CheckAddr(s, e.name, e.mutable, line).terminated = s.terminated
        BY <2>2, VarsEnd DEF CheckAddr, SameEnd
    <2> QED BY <1>2, <2>3, CheckSimpleExprGrows DEF CheckSimpleExpr, Grows, SameEnd
<1>3. CASE e.tag \notin {"ident", "addr"}
    BY <1>3 DEF CheckSimpleExpr, SameEnd
<1> QED BY <1>1, <1>2, <1>3

LEMMA ArgEnd ==
    ASSUME NEW s \in State, NEW arg \in Argument, NEW line \in Nat
    PROVE  SameEnd(s, CheckArg(s, arg, line))
<1>1. arg.e \in SimpleExpr
    BY DEF Argument
<1>2. CASE ~IsDirect(arg)
    <2>1. (~IsReference(arg.param)) \in BOOLEAN
        BY DEF IsReference
    <2> QED BY <1>1, <1>2, <2>1, SimpleExprEnd DEF CheckArg
<1>3. CASE IsDirect(arg)
    <2>1. arg.e.name \in Names /\ arg.e.mutable \in BOOLEAN
        BY <1>1, <1>3 DEF SimpleExpr, IsDirect
    <2>2. SameEnd(s, CreateBorrow(s, arg.e.name, arg.e.mutable, line))
        BY <2>1, BorrowEnd
    <2>3. CheckArg(s, arg, line).terminated = s.terminated
        BY <1>3, <2>2, ReportEnd DEF CheckArg, SameEnd
    <2> QED BY <2>3, CheckArgGrows DEF Grows, SameEnd
<1> QED BY <1>2, <1>3

LEMMA ExprEnd ==
    ASSUME NEW s \in State, NEW e \in Expr, NEW consume \in BOOLEAN, NEW line \in Nat
    PROVE  SameEnd(s, CheckExpr(s, e, consume, line))
<1>0. CheckExpr(s, e, consume, line) \in State
    BY CheckExprGrows DEF Grows
<1>1. CASE e.tag = "call"
    <2> DEFINE s1 == CheckArg(s, e.first, line)
               s2 == CheckArg(s1, e.second, line)
    <2>1. e.first \in Argument /\ e.second \in Argument
        BY <1>1 DEF Expr, SimpleExpr
    <2>2. SameEnd(s, s1)
        BY <2>1, ArgEnd
    <2>3. SameEnd(s1, s2)
        BY <2>1, <2>2, ArgEnd DEF SameEnd
    <2>4. \E v : CheckCall(s, e, line) = [s2 EXCEPT !.vars = v]
        BY DEF CheckCall
    <2> HIDE DEF s1, s2
    <2>5. CheckCall(s, e, line).terminated = s2.terminated
        BY <2>3, <2>4, VarsEnd DEF SameEnd
    <2> QED BY <1>0, <1>1, <2>2, <2>3, <2>5 DEF CheckExpr, SameEnd
<1>2. CASE e.tag = "refcall"
    <2>1. e.name \in Names /\ e.mutable \in BOOLEAN
        BY <1>2 DEF Expr, SimpleExpr
    <2>2. SameEnd(s, CreateBorrow(s, e.name, e.mutable, line))
        BY <2>1, BorrowEnd
    <2>3. CheckAddr(s, e.name, e.mutable, line).terminated = s.terminated
        BY <2>2, VarsEnd DEF CheckAddr, SameEnd
    <2> QED BY <1>0, <1>2, <2>3 DEF CheckExpr, SameEnd
<1>3. CASE e.tag \notin {"call", "refcall"}
    <2>1. e \in SimpleExpr
        BY <1>3 DEF Expr
    <2> QED BY <1>3, <2>1, SimpleExprEnd DEF CheckExpr
<1> QED BY <1>1, <1>2, <1>3

LEMMA LetEnd ==
    ASSUME NEW s \in State, NEW x \in Statement, x.tag = "let", NEW line \in Nat
    PROVE  CheckLet(s, x, line).terminated = s.terminated
<1>1. x.name \in Names /\ x.ty \in Types /\ x.mutable \in BOOLEAN /\ x.e \in Expr
    BY DEF Statement
<1>2. ASSUME NEW t, SameEnd(s, t), NEW v
      PROVE  AddVar(t, v).terminated = s.terminated
    BY <1>2 DEF AddVar, SameEnd, State
<1>3. ASSUME NEW t, SameEnd(s, t), NEW n \in Names, NEW m, NEW source \in Names, NEW bm \in BOOLEAN
      PROVE  LetBorrow(t, n, m, source, bm, line).terminated = s.terminated
    <2>1. SameEnd(t, CreateBorrow(t, source, bm, line))
        BY <1>3, BorrowEnd DEF SameEnd
    <2>2. SameEnd(s, CreateBorrow(t, source, bm, line))
        BY <1>3, <2>1 DEF SameEnd
    <2> QED BY <1>2, <2>2 DEF LetBorrow
<1>4. SameEnd(s, s)
    BY DEF SameEnd
<1>5. SameEnd(s, CheckExpr(s, x.e, FALSE, line)) /\ SameEnd(s, CheckExpr(s, x.e, TRUE, line))
    BY <1>1, ExprEnd
<1>6. CASE x.e.tag = "addr"
    <2>1. x.e.name \in Names /\ x.e.mutable \in BOOLEAN
        BY <1>1, <1>6 DEF Expr, SimpleExpr
    <2> QED BY <1>1, <1>3, <1>4, <1>6, <2>1 DEF CheckLet
<1>7. CASE x.e.tag = "refcall"
    <2>1. x.e.name \in Names /\ x.e.returnsMut \in BOOLEAN
        BY <1>1, <1>7 DEF Expr, SimpleExpr
    <2> QED BY <1>1, <1>3, <1>5, <1>7, <2>1 DEF CheckLet
<1>8. CASE x.e.tag = "call" /\ IsReference(x.ty)
    <2> DEFINE t == CheckExpr(s, x.e, FALSE, line)
               u == Report(t, "E5008", NoName, line)
    <2>1. t \in State /\ "E5008" \in Codes /\ t.terminated = s.terminated
        BY <1>5 DEF Codes, SameEnd
    <2> HIDE DEF t
    <2>2. SameEnd(s, u)
        <3>1. u \in State
            BY <2>1, ReportGrows DEF Grows
        <3>2. u.terminated = t.terminated
            BY <2>1, ReportEnd
        <3> QED BY <2>1, <3>1, <3>2 DEF SameEnd
    <2>3. CheckLet(s, x, line) = AddVar(u, NewRefEntry(x.name, x.ty, x.mutable, NoName, FALSE, Released))
        BY <1>8 DEF CheckLet, t
    <2> HIDE DEF u
    <2> QED BY <1>2, <2>2, <2>3
<1>9. CASE x.e.tag \notin {"addr", "refcall"} /\ ~(x.e.tag = "call" /\ IsReference(x.ty))
    BY <1>2, <1>5, <1>9 DEF CheckLet
<1> QED BY <1>6, <1>7, <1>8, <1>9

IsReturn(x) == x.tag \in {"return", "return_expr"}

LEMMA SimpleEnd ==
    ASSUME NEW s \in State, NEW x \in Statement, NEW line \in Nat, ~IsReturn(x)
    PROVE  CheckSimple(s, x, line).terminated = s.terminated
<1>1. CASE x.tag = "let"
    BY <1>1, LetEnd DEF CheckSimple
<1>2. CASE x.tag = "assign"
    <2> DEFINE i == Find(s.vars, x.name)
               s1 == ReportIf(~s.vars[i].mutable, s, "E5004", x.name, line)
               s2 == ReportIf(Borrowed(s.vars[i]), s1, "E5002", x.name, line)
    <2>1. x.e \in Expr /\ x.name \in Names /\ "E5004" \in Codes /\ "E5002" \in Codes
        BY <1>2 DEF Statement, Codes
    <2>a. ASSUME NEW t \in State, NEW cond, NEW code \in Codes
          PROVE  SameEnd(t, ReportIf(cond, t, code, x.name, line))
        <3>1. ReportIf(cond, t, code, x.name, line).terminated = t.terminated
            BY ReportEnd
        <3>2. Grows(t, ReportIf(cond, t, code, x.name, line))
            BY <2>1, ReportIfGrows
        <3> QED BY <3>1, <3>2 DEF SameEnd, Grows
    <2>2. SameEnd(s, s1)
        BY <2>1, <2>a
    <2>3. SameEnd(s1, s2)
        BY <2>1, <2>2, <2>a DEF SameEnd
    <2>4. CASE i = 0
        <3>1. CheckAssign(s, x, line) = CheckExpr(s, x.e, TRUE, line)
            BY <2>4 DEF CheckAssign
        <3>2. SameEnd(s, CheckExpr(s, x.e, TRUE, line))
            BY <2>1, ExprEnd
        <3>3. CheckSimple(s, x, line) = CheckExpr(s, x.e, TRUE, line)
            BY <1>2, <3>1 DEF CheckSimple
        <3> QED BY <3>2, <3>3 DEF SameEnd
    <2>5. CASE i # 0
        <3> DEFINE t == CheckExpr(s2, x.e, TRUE, line)
        <3>1. SameEnd(s2, t)
            BY <2>1, <2>3, ExprEnd DEF SameEnd
        <3>2. CheckAssign(s, x, line) = [t EXCEPT !.vars[i].status = "Available"]
            BY <2>5 DEF CheckAssign
        <3> HIDE DEF t, i
        <3>3. [t EXCEPT !.vars[i].status = "Available"].terminated = t.terminated
            BY <3>1 DEF SameEnd, State
        <3> QED BY <1>2, <2>2, <2>3, <3>1, <3>2, <3>3 DEF CheckSimple, SameEnd
    <2> QED BY <2>4, <2>5
<1>3. CASE x.tag = "store"
    <2> DEFINE t == CheckMutation(s, x.name, line)
               u == CheckIdent(t, x.name, FALSE, line)
    <2>1. x.e \in Expr /\ x.name \in Names
        BY <1>3 DEF Statement
    <2>2. t \in State /\ t.terminated = s.terminated
        <3>1. t.terminated = s.terminated
            BY ReportEnd DEF CheckMutation
        <3> QED BY <2>1, <3>1, CheckMutationGrows DEF Grows
    <2> HIDE DEF t
    <2>3. u \in State /\ u.terminated = t.terminated
        <3>1. u.terminated = t.terminated
            <4> DEFINE i == Find(t.vars, x.name)
            <4>1. \/ u = t \/ \E c : u = Report(t, c, x.name, line)
                  \/ u = [t EXCEPT !.vars[i].status = "Moved"]
                BY DEF CheckIdent
            <4> HIDE DEF u, i
            <4> QED BY <2>2, <4>1, ReportEnd DEF State
        <3> QED BY <2>1, <2>2, <3>1, CheckIdentGrows DEF Grows
    <2> HIDE DEF u
    <2>4. SameEnd(u, CheckExpr(u, x.e, TRUE, line))
        BY <2>1, <2>3, ExprEnd
    <2> QED BY <1>3, <2>2, <2>3, <2>4 DEF CheckSimple, CheckStore, t, u, SameEnd
<1>4. CASE x.tag = "use"
    <2>1. x.e \in Expr
        BY <1>4 DEF Statement
    <2> QED BY <1>4, <2>1, ExprEnd DEF CheckSimple, SameEnd
<1>5. CASE x.tag \notin {"let", "assign", "store", "use"}
    BY <1>5 DEF CheckSimple, IsReturn
<1> QED BY <1>1, <1>2, <1>3, <1>4, <1>5

-----------------------------------------------------------------------------
(***************************************************************************)
(* The programs the theorem is about: straight-line code in which a name   *)
(* is used after its declaration only - a name the walk does not find goes *)
(* unchecked - and in which the value a store evaluates does not mention   *)
(* the variable it is stored into - the walk looks at the place before the *)
(* value, the code that is generated evaluates the value first.            *)
(***************************************************************************)
KnownBefore(line) ==
    {Params[i].name : i \in DOMAIN Params}
        \cup {prog[k].name : k \in {j \in 1..(line - 1) : prog[j].tag = "let"}}
NamesKnown == \A k \in DOMAIN prog :
    /\ Mentions(prog[k]) \subseteq KnownBefore(k)
    /\ prog[k].tag = "assign" => prog[k].name \in KnownBefore(k)
StoresApart == \A k \in DOMAIN prog : prog[k].tag = "store" => prog[k].name \notin Mentioned(prog[k].e)
Plain == StraightLine /\ NamesKnown /\ StoresApart

(***************************************************************************)
(* What the check of a body leaves behind for the run: the entries it had  *)
(* at each line.  Carries says that line k takes a run whose cells fit the *)
(* entries at that line, whatever the run did before, to one whose cells   *)
(* fit the entries at the next line.                                       *)
(***************************************************************************)
Fits(v, c) == c \in Seq(Box) /\ InStep(v, c)
Suits(p, v, c, line) == Fits(v, c) /\ (Tracked(p) => Tied(p, v, c, line))
Carries(p, v, w, line) ==
    \A c : Suits(p, v, c, line) =>
        LET y == Exec!RunSimple([cells |-> c, fault |-> "none"], p[line])
        IN  Safe(p, y.fault) /\ Suits(p, w, y.cells, line + 1)
Trail(p, h) ==
    /\ h \in Seq(Seq(Entry)) /\ Len(h) \in 1..(Len(p) + 1) /\ h[1] = Params
    /\ \A k \in 1..(Len(h) - 1) : Carries(p, h[k], h[k + 1], k)

(* The trail ends where the check is, or behind the first return.          *)
EndsAt(p, h) == Len(h) = Len(p) + 1 \/ (Len(h) > 1 /\ IsReturn(p[Len(h) - 1]))
Walks(h) ==
    /\ ~finished /\ ~st.terminated => Len(h) = pc /\ h[pc] = st.vars
    /\ finished \/ st.terminated => EndsAt(prog, h)
Runs(h) ==
    /\ Safe(prog, fault)
    /\ ~halted /\ fault = "none" =>
        /\ rpc \in 1..Len(h) /\ Suits(prog, h[rpc], env, rpc)
        /\ rpc > 1 => ~IsReturn(prog[rpc - 1])

NamesFound == \A n \in KnownBefore(pc) : Named(st.vars, n)
Sound ==
    Plain =>
        /\ regions = <<>>
        /\ ~Accepted => Exec!ExecInit
        /\ ~finished /\ ~st.terminated => NamesFound /\ Origins(st.vars)
        /\ st.diags = {} => \E h : Trail(prog, h) /\ Walks(h) /\ (finished => Runs(h))

LEMMA ExpireSame ==
    ASSUME NEW s \in State, NEW line \in Nat
    PROVE  SameStatus(s.vars, Expire(s, line).vars)
<1>1. Expired(s.vars, Expire(s, line).vars, Due(s.vars, line))
    BY ExpireIs
<1> QED BY <1>1 DEF Expired, Kin, SameReference, SameStatus

LEMMA SimpleCarries ==
    ASSUME NEW s \in State, NEW a \in Statement, a.tag \in SimpleTags, prog \in Seq(Statement),
           NEW line \in DOMAIN prog, prog[line] = a, Balanced(s.vars), Origins(s.vars),
           Declared(s.vars, a), a.tag = "let" => Unnamed(s.vars, a.name),
           Clean(CheckSimple(Expire(s, line), a, line))
    PROVE  Carries(prog, s.vars, CheckSimple(Expire(s, line), a, line).vars, line)
<1> DEFINE t == Expire(s, line)
           w == CheckSimple(t, a, line).vars
<1>1. /\ t \in State /\ SameStatus(s.vars, t.vars) /\ s.vars \in Seq(Entry) /\ t.vars \in Seq(Entry) /\ line \in Nat
      /\ Balanced(t.vars) /\ Origins(t.vars)
    BY ExpireGrows, ExpireSame, ExpireBalances, SimpleOrigins DEF Grows, State
<1>2. Declared(t.vars, a) /\ (a.tag = "let" => Unnamed(t.vars, a.name))
    <2>1. \A n : Named(s.vars, n) => Named(t.vars, n)
        BY <1>1 DEF Named, SameStatus
    <2>2. \A n : Unnamed(s.vars, n) => Unnamed(t.vars, n)
        BY <1>1 DEF Unnamed, SameStatus
    <2> QED BY <2>1, <2>2 DEF Declared
<1> SUFFICES ASSUME NEW c, Suits(prog, s.vars, c, line)
             PROVE  LET y == Exec!RunSimple([cells |-> c, fault |-> "none"], a)
                    IN  Safe(prog, y.fault) /\ Suits(prog, w, y.cells, line + 1)
    BY DEF Carries
<1> DEFINE x == [cells |-> c, fault |-> "none"]
           y == Exec!RunSimple(x, a)
<1>3. x \in Run /\ x.fault = "none" /\ x.cells = c /\ c \in Seq(Box) /\ InStep(s.vars, c)
    BY DEF Suits, Fits, Run, Exec!Faults
<1>4. InStep(t.vars, x.cells)
    <2>1. Mirror(t.vars, c)
        BY <1>1, <1>3, MirrorSame DEF InStep
    <2> QED BY <1>1, <1>3, <2>1 DEF InStep, SameStatus
<1>5. Tracked(prog) => Tied(prog, t.vars, x.cells, line)
    <2>1. Tracked(prog) => Tied(prog, s.vars, c, line)
        BY DEF Suits
    <2> HIDE DEF x
    <2> QED BY <1>1, <1>3, <2>1, ExpireTies
<1> HIDE DEF t, x
<1>6. Clean(CheckSimple(t, a, line))
    BY DEF t
<1>7. StaysInStep(x, y, w)
    BY <1>1, <1>2, <1>3, <1>4, <1>6, SimpleGoes
<1>8. Tracked(prog) => LineEnds(prog, x, y, w, line)
    <2>1. Tracked(prog) => LineTracked(prog, a)
        BY DEF Tracked
    <2> QED BY <1>1, <1>2, <1>3, <1>4, <1>5, <1>6, <2>1, SimpleTies
<1> HIDE DEF y, w
<1>9. Safe(prog, y.fault)
    BY <1>3, <1>7, <1>8 DEF StaysInStep, LineEnds, Safe
<1>10. Suits(prog, w, y.cells, line + 1)
    BY <1>7, <1>8, RunFields DEF StaysInStep, LineEnds, Suits, Fits
<1> QED BY <1>9, <1>10 DEF y, x, w

LEMMA TrailGrows ==
    ASSUME NEW p \in Seq(Statement), NEW h, Trail(p, h), Len(h) <= Len(p), NEW w \in Seq(Entry),
           Carries(p, h[Len(h)], w, Len(h))
    PROVE  /\ Trail(p, Append(h, w)) /\ Len(Append(h, w)) = Len(h) + 1
           /\ Append(h, w)[Len(h) + 1] = w
<1> DEFINE g == Append(h, w)
           n == Len(h)
           m == Len(p)
<1>1. /\ g \in Seq(Seq(Entry)) /\ Len(g) = n + 1 /\ n \in Nat /\ m \in Nat /\ n >= 1 /\ n <= m
      /\ \A k \in 1..n : g[k] = h[k]
      /\ g[n + 1] = w
    BY DEF Trail
<1>2. h[1] = Params /\ \A k \in 1..(n - 1) : Carries(p, h[k], h[k + 1], k)
    BY DEF Trail
<1>3. Carries(p, h[n], w, n)
    OBVIOUS
<1> HIDE DEF g, n, m
<1>4. g[1] = Params /\ Len(g) \in 1..(m + 1)
    BY <1>1, <1>2
<1>5. ASSUME NEW k \in 1..(Len(g) - 1)
      PROVE  Carries(p, g[k], g[k + 1], k)
    <2>1. k \in 1..(n - 1) \/ k = n
        BY <1>1
    <2>2. CASE k \in 1..(n - 1)
        <3>1. k \in 1..n /\ k + 1 \in 1..n
            BY <1>1, <2>2
        <3> QED BY <1>1, <1>2, <2>2, <3>1
    <2>3. CASE k = n
        <3>1. n \in 1..n
            BY <1>1
        <3> QED BY <1>1, <1>3, <2>3, <3>1
    <2> QED BY <2>1, <2>2, <2>3
<1>6. Trail(p, g)
    BY <1>1, <1>4, <1>5 DEF Trail, m
<1> QED BY <1>1, <1>6 DEF g, n

(* The cells the run starts with are those of globals and parameters.      *)
FirstCells == [i \in DOMAIN Params |-> Exec!NewCell(Params[i].name, Params[i].ty, 0, TRUE)]

LEMMA FirstFit ==
    /\ \A p : Suits(p, Params, FirstCells, 1)
    /\ Exec!ExecInit <=> rpc = 1 /\ env = FirstCells /\ regions = <<>> /\ fault = "none" /\ halted = FALSE
<1>1. Params \in Seq(Entry) /\ DOMAIN Params = 1..Len(Params) /\ Len(Params) \in Nat
    BY ParamsAssumption
<1>2. ASSUME NEW i \in DOMAIN Params
      PROVE  /\ Params[i].active /\ Params[i].status = "Available"
             /\ FirstCells[i] = NewBox(Params[i].name, Params[i].ty, 0)
             /\ NewBox(Params[i].name, Params[i].ty, 0) \in Box
             /\ NewBox(Params[i].name, Params[i].ty, 0).name = Params[i].name
             /\ NewBox(Params[i].name, Params[i].ty, 0).ty = Params[i].ty
             /\ ~NewBox(Params[i].name, Params[i].ty, 0).moved
             /\ NewBox(Params[i].name, Params[i].ty, 0).owner = 0 /\ NewBox(Params[i].name, Params[i].ty, 0).valid
    <2>1. Params[i].active /\ Params[i].status = "Available"
        <3>1. \A n, ty, m, p : NewEntry(n, ty, m, p).active /\ NewEntry(n, ty, m, p).status = "Available"
            BY DEF NewEntry
        <3> QED BY <3>1, ParamsAssumption
    <2>2. Params[i].name \in Names /\ Params[i].ty \in Types
        BY <1>1, EntryFields
    <2>3. FirstCells[i] = Exec!NewCell(Params[i].name, Params[i].ty, 0, TRUE)
        BY DEF FirstCells
    <2>4. FirstCells[i] = NewBox(Params[i].name, Params[i].ty, 0) /\ NewBox(Params[i].name, Params[i].ty, 0) \in Box
        BY <2>2, <2>3, NewCellIs
    <2>5. \A n, ty : NewBox(n, ty, 0).name = n /\ NewBox(n, ty, 0).ty = ty /\ ~NewBox(n, ty, 0).moved
                    /\ NewBox(n, ty, 0).owner = 0 /\ NewBox(n, ty, 0).valid
        BY DEF NewBox
    <2> QED BY <2>1, <2>4, <2>5
<1>3. FirstCells \in Seq(Box) /\ Len(FirstCells) = Len(Params)
    <2>1. DOMAIN FirstCells = 1..Len(Params) /\ \A i \in 1..Len(Params) : FirstCells[i] \in Box
        BY <1>1, <1>2 DEF FirstCells
    <2>2. FirstCells = [i \in 1..Len(Params) |-> FirstCells[i]]
        BY <1>1 DEF FirstCells
    <2> HIDE DEF FirstCells
    <2> QED BY <1>1, <2>1, <2>2
<1>4. Mirror(Params, FirstCells)
    BY <1>1, <1>2, <1>3 DEF Mirror
<1>5. ASSUME NEW p PROVE Suits(p, Params, FirstCells, 1)
    <2>1. \A i \in DOMAIN FirstCells : i \in DOMAIN Params
        BY <1>1, <1>3
    <2>2. Tied(p, Params, FirstCells, 1)
        BY <1>2, <2>1 DEF Tied
    <2> QED BY <1>3, <1>4, <2>2 DEF Suits, Fits, InStep
<1>6. Exec!ExecInit <=> rpc = 1 /\ env = FirstCells /\ regions = <<>> /\ fault = "none" /\ halted = FALSE
    BY DEF Exec!ExecInit, FirstCells
<1> QED BY <1>5, <1>6

LEMMA InitSound == SoundInit => Sound
<1> SUFFICES ASSUME SoundInit
             PROVE  /\ regions = <<>> /\ Exec!ExecInit /\ NamesFound /\ Origins(st.vars) /\ ~finished
                    /\ \E h : Trail(prog, h) /\ Walks(h)
    BY DEF Sound, Accepted
<1>1. Init /\ Exec!ExecInit /\ regions = <<>>
    BY FirstFit DEF SoundInit
<1>2. pc = 1 /\ st.vars = Params /\ ~finished /\ ~st.terminated /\ prog \in Seq(Statement) /\ Params \in Seq(Entry)
    BY <1>1, ProgramsAssumption, ParamsAssumption DEF Init
<1>3. NamesFound /\ Origins(st.vars)
    <2>1. Origins(Params)
        <3>1. Len(Params) \in Nat /\ \A k \in DOMAIN Params : k <= Len(Params)
            BY <1>2
        <3> QED BY <3>1 DEF Origins
    <2> QED BY <1>2, <2>1 DEF NamesFound, KnownBefore, Named
<1>4. Trail(prog, <<Params>>) /\ Walks(<<Params>>)
    <2> DEFINE h == <<Params>>
    <2>1. h \in Seq(Seq(Entry)) /\ Len(h) = 1 /\ h[1] = Params
        BY <1>2
    <2> HIDE DEF h
    <2>2. Trail(prog, h)
        BY <1>2, <2>1 DEF Trail
    <2>3. Walks(h)
        BY <1>2, <2>1 DEF Walks
    <2> QED BY <2>2, <2>3 DEF h
<1> QED BY <1>1, <1>2, <1>3, <1>4

LEMMA AppendNames ==
    ASSUME NEW v \in Seq(Entry), NEW e, e \in Entry
    PROVE  Named(Append(v, e), e.name)
<1>1. Len(v) + 1 \in DOMAIN Append(v, e) /\ Append(v, e)[Len(v) + 1] = e
    OBVIOUS
<1> QED BY <1>1 DEF Named

LEMMA LetNames ==
    ASSUME NEW s \in State, NEW x \in Statement, x.tag = "let", NEW line \in Nat, prog \in Seq(Statement)
    PROVE  Named(CheckLet(s, x, line).vars, x.name)
<1>1. PICK u \in Seq(Entry) :
              IF IsBorrow(x) THEN CheckLet(s, x, line).vars = LetVars(u, x, line)
              ELSE \E e : /\ BorrowsNothing(e, x.name)
                          /\ CheckLet(s, x, line).vars = Append(u, e)
    BY LetAppends
<1>2. CASE IsBorrow(x)
    <2> DEFINE src == x.e.name
               bm == BorrowsMut(x)
               g == Lender(u, src, bm)
               e == LentEntry(u, x.name, x.mutable, src, bm, line)
               w == Lent(u, g, bm)
    <2>1. x.name \in Names /\ x.mutable \in BOOLEAN /\ src \in Names /\ bm \in BOOLEAN
        BY <1>2 DEF Statement, Expr, SimpleExpr, IsBorrow, BorrowsMut
    <2>2. e \in Entry /\ e.name = x.name
        BY <2>1, LentEntryIs
    <2>3. CheckLet(s, x, line).vars = Append(w, e)
        BY <1>1, <1>2 DEF LetVars, LentVars
    <2>4. g \in 0..Len(u)
        BY LenderType
    <2> HIDE DEF g, e, bm, src
    <2>5. w \in Seq(Entry)
        BY <2>1, <2>4, LentIs DEF Counted
    <2> HIDE DEF w
    <2> QED BY <2>2, <2>3, <2>5, AppendNames
<1>3. CASE ~IsBorrow(x)
    BY <1>1, <1>3, AppendNames DEF BorrowsNothing
<1> QED BY <1>2, <1>3

(* A statement that is checked.                                            *)
LEMMA StatementSound ==
    ASSUME Inv, Inv', Accounts, Sound, Plain, prog' = prog, SimpleStmt, UNCHANGED <<rpc, env, regions, fault, halted>>
    PROVE  Sound'
<1> DEFINE a == prog[pc]
           t == CheckSimple(Expire(st, pc), a, pc)
<1>1. /\ Walking /\ ~finished /\ ~st.terminated /\ a.tag \in SimpleTags /\ pc' = pc + 1 /\ finished' = finished /\ st' = t
    BY DEF SimpleStmt, Walking
<1>2. /\ pc \in DOMAIN prog /\ pc \in Nat /\ pc >= 1 /\ pc <= Len(prog) /\ a \in Statement
      /\ prog \in Seq(Statement) /\ st \in State /\ st.vars \in Seq(Entry) /\ Len(prog) \in Nat
    BY <1>1, Walked DEF State, Walking
<1>3. t \in State /\ t.vars \in Seq(Entry)
    BY <1>1, Reached
<1>4. /\ regions = <<>> /\ Exec!ExecInit /\ (\A n \in KnownBefore(pc) : Named(st.vars, n)) /\ Origins(st.vars)
      /\ st.diags = {} => \E h : Trail(prog, h) /\ Walks(h)
    BY <1>1 DEF Sound, NamesFound, Accepted
<1>5. Declared(st.vars, a)
    <2>1. /\ Mentions(a) \subseteq KnownBefore(pc)
          /\ a.tag = "assign" => a.name \in KnownBefore(pc)
          /\ a.tag = "store" => a.name \notin Mentioned(a.e)
        BY <1>2 DEF Plain, NamesKnown, StoresApart
    <2> QED BY <1>4, <2>1 DEF Declared
<1>6. /\ Succeeds(st.vars, t.vars, a) /\ (a.tag = "let" => Named(t.vars, a.name))
      /\ Balanced(st.vars) /\ (a.tag = "let" => Unnamed(st.vars, a.name)) /\ Origins(t.vars)
    <2>1. /\ StraightLine /\ Balanced(st.vars) /\ Known(prog, st.vars, pc)
        BY <1>1 DEF Accounts, Plain
    <2>2. a.tag = "let" => Unnamed(st.vars, a.name)
        BY <1>2, <2>1, KnownNames DEF StraightLine
    <2>3. Succeeds(st.vars, t.vars, a)
        BY <1>2, <2>1, <2>2, SimpleBalances
    <2>4. ASSUME a.tag = "let" PROVE Named(t.vars, a.name)
        <3>1. Expire(st, pc) \in State
            BY <1>2, ExpireGrows DEF Grows
        <3>2. t = CheckLet(Expire(st, pc), a, pc)
            BY <2>4 DEF CheckSimple
        <3> QED BY <1>2, <2>4, <3>1, <3>2, LetNames
    <2>5. Origins(t.vars)
        BY <1>2, <1>4, SimpleOrigins
    <2> QED BY <2>1, <2>2, <2>3, <2>4, <2>5
<1> HIDE DEF t
<1>7. ASSUME NEW n \in KnownBefore(pc + 1) PROVE Named(t.vars, n)
    <2>1. \A m : Named(st.vars, m) => Named(t.vars, m)
        <3>1. \A i \in DOMAIN st.vars : i \in DOMAIN t.vars /\ t.vars[i].name = st.vars[i].name
            BY <1>2, <1>3, <1>6 DEF Succeeds
        <3> QED BY <3>1 DEF Named
    <2>2. n \in KnownBefore(pc) \/ (a.tag = "let" /\ n = a.name)
        <3>1. \A k \in 1..((pc + 1) - 1) : k \in 1..(pc - 1) \/ k = pc
            BY <1>2
        <3>2. CASE n \in {Params[i].name : i \in DOMAIN Params}
            BY <3>2 DEF KnownBefore
        <3>3. CASE n \notin {Params[i].name : i \in DOMAIN Params}
            <4>0. n \in {prog[k].name : k \in {j \in 1..((pc + 1) - 1) : prog[j].tag = "let"}}
                BY <3>3, <1>7 DEF KnownBefore
            <4>1. PICK k \in 1..((pc + 1) - 1) : prog[k].tag = "let" /\ n = prog[k].name
                BY <4>0
            <4>2. CASE k \in 1..(pc - 1)
                BY <4>1, <4>2 DEF KnownBefore
            <4> QED BY <3>1, <4>1, <4>2
        <3> QED BY <3>2, <3>3
    <2> QED BY <1>4, <1>6, <2>1, <2>2
<1>8. ASSUME t.diags = {}
      PROVE  \E h : Trail(prog, h) /\ Len(h) = pc + 1 /\ h[pc + 1] = t.vars
    <2>1. st.diags = {}
        <3>1. Expire(st, pc) \in State /\ Expire(st, pc).diags = st.diags
            BY <1>2, ExpireGrows DEF Grows
        <3>2. Grows(Expire(st, pc), t)
            BY <1>2, <3>1, CheckSimpleGrows DEF t
        <3> QED BY <1>8, <3>1, <3>2 DEF Grows
    <2>2. PICK h : Trail(prog, h) /\ Walks(h)
        BY <1>4, <2>1
    <2>3. Len(h) = pc /\ h[pc] = st.vars
        BY <1>1, <2>2 DEF Walks
    <2>4. Carries(prog, st.vars, t.vars, pc)
        <3>1. Clean(CheckSimple(Expire(st, pc), a, pc))
            BY <1>8 DEF Clean, t
        <3> QED BY <1>1, <1>2, <1>4, <1>5, <1>6, <3>1, SimpleCarries DEF t
    <2>5. /\ Trail(prog, Append(h, t.vars)) /\ Len(Append(h, t.vars)) = pc + 1
          /\ Append(h, t.vars)[pc + 1] = t.vars
        BY <1>2, <1>3, <2>2, <2>3, <2>4, TrailGrows
    <2> QED BY <2>5
<1>9. t.terminated => IsReturn(a)
    <2>1. Expire(st, pc) \in State /\ Expire(st, pc).terminated = st.terminated
        <3>1. Expire(st, pc).terminated = st.terminated
            BY <1>2, VarsEnd DEF Expire
        <3> QED BY <1>2, <3>1, ExpireGrows DEF Grows
    <2> QED BY <1>1, <1>2, <2>1, SimpleEnd DEF t
<1>10. ASSUME NEW h, Trail(prog, h), Len(h) = pc + 1, h[pc + 1] = t.vars
       PROVE  Walks(h)'
    <2>1. st'.terminated => EndsAt(prog, h)
        BY <1>1, <1>2, <1>9, <1>10 DEF EndsAt
    <2> QED BY <1>1, <1>10, <2>1 DEF Walks
<1>11. NamesFound' /\ Origins(st'.vars)
    <2>1. KnownBefore(pc)' = KnownBefore(pc + 1)
        BY <1>1 DEF KnownBefore
    <2> QED BY <1>1, <1>6, <1>7, <2>1 DEF NamesFound
<1>12. (Exec!ExecInit)'
    BY <1>4, FirstFit DEF Exec!ExecInit
<1> QED BY <1>1, <1>4, <1>8, <1>10, <1>11, <1>12 DEF Sound, Accepted

LEMMA CheckSound ==
    ASSUME Inv, Inv', Accounts, Sound, CheckPhase
    PROVE  Sound'
<1> SUFFICES ASSUME Plain'
             PROVE  Sound'
    BY DEF Sound
<1>1. Step /\ UNCHANGED <<rpc, env, regions, fault, halted>>
    BY DEF CheckPhase, Check
<1>2. prog' = prog
    BY <1>1 DEF Step, SimpleStmt, SkipDeadCode, OpenBlock, OpenIf, OpenWhile, OpenMatch, OpenCondition,
        OpenFor, EnterElse, EnterArm, EndBlock, EndThen, EndElse, EndFor, EndEmptyMatch, EndMatch,
        RepeatWhile, EndWhile, Close, Finish
<1>3. Plain /\ StraightLine
    BY <1>2 DEF Plain, StraightLine, NamesApart, NamesKnown, StoresApart, KnownBefore
<1>4. SimpleStmt \/ SkipDeadCode \/ Finish
    <2>1. frames = <<>>
        BY <1>3 DEF Accounts
    <2> QED BY <1>1, <1>3, <2>1, OnlySimple
<1>5. CASE SimpleStmt
    BY <1>1, <1>2, <1>3, <1>5, StatementSound
<1>6. CASE SkipDeadCode
    <2>1. ~finished /\ ~finished' /\ st.terminated /\ st' = st
        BY <1>6 DEF SkipDeadCode, Walking
    <2>2. regions = <<>> /\ Exec!ExecInit /\ (st.diags = {} => \E h : Trail(prog, h) /\ Walks(h))
        BY <1>3, <2>1 DEF Sound, Accepted
    <2>3. ASSUME NEW h, Walks(h) PROVE Walks(h)'
        BY <1>2, <2>1, <2>3 DEF Walks
    <2>4. (Exec!ExecInit)'
        BY <1>1, <2>2 DEF Exec!ExecInit
    <2> QED BY <1>1, <1>2, <2>1, <2>2, <2>3, <2>4 DEF Sound, Accepted
<1>7. CASE Finish
    <2>1. ~finished /\ finished' /\ pc = Len(prog) + 1 /\ st' = LeaveScope(st, Len(Params))
        BY <1>7 DEF Finish
    <2>2. st \in State /\ Len(Params) \in Nat /\ prog \in Seq(Statement) /\ Len(prog) \in Nat
        BY Walked, ParamsAssumption
    <2>3. st'.diags = st.diags
        BY <2>1, <2>2, LeaveScopeGrows
    <2>4. regions = <<>> /\ Exec!ExecInit /\ (st.diags = {} => \E h : Trail(prog, h) /\ Walks(h))
        BY <1>3, <2>1 DEF Sound, Accepted
    <2>5. ASSUME NEW h, Trail(prog, h), Walks(h) PROVE Walks(h)' /\ Runs(h)'
        <3>1. EndsAt(prog, h)
            BY <2>1, <2>5 DEF Walks, EndsAt
        <3>2. Walks(h)'
            BY <1>2, <2>1, <3>1 DEF Walks
        <3>3. Runs(h)'
            <4>1. rpc' = 1 /\ env' = FirstCells /\ fault' = "none" /\ h[1] = Params /\ 1 \in 1..Len(h)
                BY <1>1, <2>4, <2>5, FirstFit DEF Trail
            <4>2. Safe(prog, "none") /\ Suits(prog, h[1], FirstCells, 1)
                BY <4>1, FirstFit DEF Safe
            <4> QED BY <1>2, <4>1, <4>2 DEF Runs
        <3> QED BY <3>2, <3>3
    <2>6. (Exec!ExecInit)'
        BY <1>1, <2>4 DEF Exec!ExecInit
    <2> QED BY <1>1, <1>2, <2>1, <2>3, <2>4, <2>5, <2>6 DEF Sound
<1> QED BY <1>4, <1>5, <1>6, <1>7

(* A step of the run, which has one statement after the other to run.      *)
LEMMA OnlyLines ==
    ASSUME prog \in Seq(Statement), StraightLine, regions = <<>>, rpc \in Nat, rpc >= 1, Exec!ExecStep(prog)
    PROVE  Exec!RunLine(prog) \/ Exec!RunEnd(prog)
<1>1. ASSUME Exec!Running(prog) PROVE prog[rpc].tag \in SimpleTags
    <2>1. rpc \in DOMAIN prog
        BY <1>1 DEF Exec!Running
    <2> QED BY <2>1 DEF StraightLine
<1>2. ASSUME Exec!Running(prog)
      PROVE  prog[rpc].tag \notin {"block", "if", "while", "for", "match", "else", "arm", "end"}
    BY <1>1, <1>2 DEF SimpleTags
<1>3. /\ ~Exec!RunBlock(prog) /\ ~Exec!RunIf(prog) /\ ~Exec!RunMatch(prog) /\ ~Exec!RunWhile(prog)
      /\ ~Exec!RunFor(prog) /\ ~Exec!PassOver(prog) /\ ~Exec!CloseRegion(prog)
    BY <1>2 DEF Exec!RunBlock, Exec!RunIf, Exec!RunMatch, Exec!RunWhile, Exec!RunFor, Exec!PassOver,
        Exec!CloseRegion, Exec!RunCondition, Exec!DividerTags
<1>4. ~Exec!RunJump(prog)
    <2>1. Exec!Loops = {}
        BY DEF Exec!Loops
    <2> QED BY <2>1 DEF Exec!RunJump
<1> QED BY <1>3, <1>4 DEF Exec!ExecStep

LEMMA RunSound ==
    ASSUME Inv, Sound, RunPhase
    PROVE  Sound'
<1>1. finished /\ finished' = finished /\ prog' = prog /\ st' = st /\ st.diags = {} /\ Exec!ExecStep(prog)
    BY DEF RunPhase, Accepted
<1> SUFFICES ASSUME Plain
             PROVE  regions' = <<>> /\ \E h : Trail(prog, h) /\ Walks(h)' /\ Runs(h)'
    <2>1. Plain' => Plain
        BY <1>1 DEF Plain, StraightLine, NamesApart, NamesKnown, StoresApart, KnownBefore
    <2> QED BY <1>1, <2>1 DEF Sound, Accepted
<1>2. regions = <<>> /\ prog \in Seq(Statement) /\ Len(prog) \in Nat /\ StraightLine
    BY Walked DEF Sound, Plain
<1>3. PICK h : Trail(prog, h) /\ Walks(h) /\ Runs(h)
    BY <1>1 DEF Sound
<1>4. Walks(h)'
    BY <1>1, <1>3 DEF Walks
<1>5. CASE halted \/ fault # "none"
    BY <1>1, <1>5 DEF Exec!ExecStep, Exec!RunLine, Exec!RunBlock, Exec!RunIf, Exec!RunMatch, Exec!RunWhile,
        Exec!RunFor, Exec!PassOver, Exec!CloseRegion, Exec!RunJump, Exec!RunEnd, Exec!RunCondition, Exec!Running
<1>6. CASE ~halted /\ fault = "none"
    <2>1. rpc \in 1..Len(h) /\ Suits(prog, h[rpc], env, rpc) /\ (rpc > 1 => ~IsReturn(prog[rpc - 1]))
        BY <1>3, <1>6 DEF Runs
    <2>2. Len(h) \in 1..(Len(prog) + 1) /\ rpc \in Nat /\ rpc >= 1
        BY <1>3, <2>1 DEF Trail
    <2>3. Exec!RunLine(prog) \/ Exec!RunEnd(prog)
        BY <1>1, <1>2, <2>2, OnlyLines
    <2>4. CASE Exec!RunEnd(prog)
        <3>1. halted' /\ fault' = fault /\ regions' = regions
            BY <2>4 DEF Exec!RunEnd
        <3>2. Runs(h)'
            BY <1>1, <1>3, <3>1 DEF Runs
        <3> QED BY <1>2, <1>3, <1>4, <3>1, <3>2
    <2>5. CASE Exec!RunLine(prog)
        <3> DEFINE y == Exec!RunSimple([cells |-> env, fault |-> "none"], prog[rpc])
        <3>1. /\ rpc <= Len(prog) /\ env' = y.cells /\ fault' = y.fault /\ rpc' = rpc + 1 /\ regions' = regions
              /\ halted' = IsReturn(prog[rpc])
            BY <1>6, <2>5 DEF Exec!RunLine, Exec!Running, IsReturn
        <3> HIDE DEF y
        <3>2. rpc \in 1..(Len(h) - 1)
            <4>1. EndsAt(prog, h)
                BY <1>1, <1>3 DEF Walks
            <4>2. rpc # Len(h)
                BY <1>2, <2>1, <2>2, <3>1, <4>1 DEF EndsAt
            <4> QED BY <2>1, <2>2, <4>2
        <3>3. Carries(prog, h[rpc], h[rpc + 1], rpc)
            BY <1>3, <3>2 DEF Trail
        <3>4. Safe(prog, y.fault) /\ Suits(prog, h[rpc + 1], y.cells, rpc + 1)
            BY <2>1, <3>3 DEF Carries, y
        <3>5. rpc + 1 \in 1..Len(h)
            BY <2>2, <3>2
        <3>6. Runs(h)'
            BY <1>1, <2>2, <3>1, <3>4, <3>5 DEF Runs
        <3> QED BY <1>2, <1>3, <1>4, <3>1, <3>6
    <2> QED BY <2>3, <2>4, <2>5
<1> QED BY <1>5, <1>6

(***************************************************************************)
(* What every state of an accepted program satisfies.                      *)
(***************************************************************************)
LEMMA RunsAreSafe == SoundSpec => [](Plain => Safe(prog, fault))
<1>1. Inv /\ Sound => (Plain => Safe(prog, fault))
    <2> SUFFICES ASSUME Inv, Sound, Plain PROVE Safe(prog, fault)
        OBVIOUS
    <2>1. CASE ~Accepted
        BY <2>1, FirstFit DEF Sound, Safe
    <2>2. CASE Accepted
        BY <2>2 DEF Sound, Runs, Accepted
    <2> QED BY <2>1, <2>2
<1>2. SoundInit => Inv /\ Accounts /\ Sound
    BY InitInv, InitAccounts, InitSound DEF SoundInit
<1>3. Inv /\ Accounts /\ Sound /\ [CheckPhase \/ RunPhase]_soundVars => (Inv /\ Accounts /\ Sound)'
    <2> SUFFICES ASSUME Inv, Accounts, Sound, [CheckPhase \/ RunPhase]_soundVars
                 PROVE  Inv' /\ Accounts' /\ Sound'
        OBVIOUS
    <2>1. [Check]_checkVars
        BY DEF CheckPhase, RunPhase, soundVars, checkVars
    <2>2. Inv' /\ Accounts'
        BY <2>1, NextInv, NextAccounts
    <2>3. CASE CheckPhase
        BY <2>2, <2>3, CheckSound
    <2>4. CASE RunPhase
        BY <2>2, <2>4, RunSound
    <2>5. CASE UNCHANGED soundVars
        <3>1. Plain' => Plain
            BY <2>5 DEF soundVars, checkVars, Plain, StraightLine, NamesApart, NamesKnown, StoresApart, KnownBefore
        <3>2. \A h : (Walks(h)' <=> Walks(h)) /\ (Runs(h)' <=> Runs(h))
            BY <2>5 DEF soundVars, checkVars, Walks, Runs
        <3>3. (NamesFound' <=> NamesFound) /\ ((Exec!ExecInit)' <=> Exec!ExecInit) /\ (Accepted' <=> Accepted)
            BY <2>5 DEF soundVars, checkVars, NamesFound, KnownBefore, Exec!ExecInit, Accepted
        <3>4. prog' = prog /\ st' = st /\ finished' = finished /\ regions' = regions
            BY <2>5 DEF soundVars, checkVars
        <3> QED BY <2>2, <3>1, <3>2, <3>3, <3>4 DEF Sound
    <2> QED BY <2>2, <2>3, <2>4, <2>5
<1> QED BY <1>1, <1>2, <1>3, PTL DEF SoundSpec

(***************************************************************************)
(* An accepted program that is straight-line code does not use a value it  *)
(* has moved, whatever expressions, calls and stores its lines consist of. *)
(* The checker decides from flags and counters that it updates statement   *)
(* by statement; that they stand for the cells of the run, through every   *)
(* borrow, argument and assignment, is what the theorem says.              *)
(***************************************************************************)
THEOREM MovesExcluded == SoundSpec => [](Plain => NoUseAfterMove)
<1>1. (Plain => Safe(prog, fault)) => (Plain => NoUseAfterMove)
    BY DEF Safe, NoUseAfterMove
<1> QED BY <1>1, RunsAreSafe, PTL

(***************************************************************************)
(* Nor does it use a reference after its owner was moved, overwritten or   *)
(* borrowed again in conflict, as long as references are held by the       *)
(* variables that borrowed them: the checker has no entry for a reference  *)
(* that was copied into another variable, or assigned.  A borrow ends in   *)
(* the checker after the last line that names its holder; that the run     *)
(* does not see the difference is what the theorem says.                   *)
(***************************************************************************)
THEOREM StaleExcluded == SoundSpec => [](Plain /\ Tracked(prog) => NoStaleReference)
<1>1. (Plain => Safe(prog, fault)) => (Plain /\ Tracked(prog) => NoStaleReference)
    BY DEF Safe, NoStaleReference
<1> QED BY <1>1, RunsAreSafe, PTL

(***************************************************************************)
(* Nor does it return a reference to a variable of its own: a reference    *)
(* that is returned points where the checker, which goes by the name of    *)
(* its source, takes it to point, and that is not a local.                 *)
(***************************************************************************)
THEOREM EscapesExcluded == SoundSpec => [](Plain /\ Tracked(prog) /\ NoRefRef(prog) => NoEscape)
<1>1. (Plain => Safe(prog, fault)) => (Plain /\ Tracked(prog) /\ NoRefRef(prog) => NoEscape)
    BY DEF Safe, NoEscape
<1> QED BY <1>1, RunsAreSafe, PTL
=============================================================================
