-------------------------- MODULE ResolutionProofs --------------------------
(***************************************************************************)
(* The three tables of a program's names agree, however many functions,    *)
(* blocks and variables there are.                                         *)
(***************************************************************************)
EXTENDS NameResolution, ScopeProofs

(* The entry that a search from the end meets first.                       *)
IsLast(s, x, k) ==
    \/ k = 0 /\ \A i \in DOMAIN s : s[i].name # x
    \/ k \in DOMAIN s /\ s[k].name = x /\ \A i \in DOMAIN s : s[i].name = x => i <= k

LEMMA LastIs ==
    ASSUME NEW s, NEW n \in Nat, DOMAIN s = 1..n, NEW x
    PROVE  IsLast(s, x, LastNamed(s, x)) /\ \A k : IsLast(s, x, k) => k = LastNamed(s, x)
<1> DEFINE S == {0} \cup {i \in DOMAIN s : s[i].name = x}
<1>1. S \in SUBSET (0..n) /\ S # {} /\ 0 \in S
    OBVIOUS
<1>2. Max(S) \in S /\ \A y \in S : Max(S) >= y
    BY <1>1, GreatestOf
<1>3. LastNamed(s, x) = Max(S)
    BY DEF LastNamed
<1>4. PICK m \in S : m = LastNamed(s, x) /\ \A y \in S : m >= y
    BY <1>2, <1>3
<1>5. IsLast(s, x, m)
    BY <1>4 DEF IsLast
<1>6. ASSUME NEW k, IsLast(s, x, k) PROVE k = m
    BY <1>4, <1>6 DEF IsLast
<1> QED
    BY <1>4, <1>5, <1>6

-----------------------------------------------------------------------------
(* The environments.                                                       *)
EnvEntry == [name : Names, decl : Declarations]
Env == Seq(EnvEntry)

LEMMA HasMeans ==
    ASSUME NEW e \in Env, NEW x
    PROVE  /\ type_env_has(e, x) <=> \E i \in DOMAIN e : e[i].name = x
           /\ type_env_has(e, x) => /\ LastNamed(e, x) \in DOMAIN e
                                    /\ e[LastNamed(e, x)].name = x
<1>1. Len(e) \in Nat /\ DOMAIN e = 1..Len(e)
    BY DEF Env
<1>2. IsLast(e, x, LastNamed(e, x))
    BY <1>1, LastIs
<1> QED
    BY <1>1, <1>2 DEF type_env_has, IsLast

LEMMA ExtendBinds ==
    ASSUME NEW e \in Env, NEW x \in Names, NEW d \in Declarations, NEW f, f = type_env_extend(e, x, d)
    PROVE  /\ f \in Env
           /\ type_env_has(f, x) /\ type_env_lookup(f, x) = d
           /\ \A y : y # x => /\ type_env_has(f, y) <=> type_env_has(e, y)
                              /\ type_env_has(e, y) => type_env_lookup(f, y) = type_env_lookup(e, y)
<1> DEFINE n == Len(e)
<1>1. n \in Nat /\ DOMAIN e = 1..n /\ Binding(x, d) \in EnvEntry /\ e \in Seq(EnvEntry)
    BY DEF Env, EnvEntry, Binding
<1>2. f = Append(e, Binding(x, d))
    BY DEF type_env_extend
<1>3. /\ f \in Env /\ DOMAIN f = 1..n + 1 /\ f[n + 1] = Binding(x, d)
      /\ \A i \in 1..n : f[i] = e[i]
    BY <1>1, <1>2 DEF Env
<1> HIDE DEF n
<1>4. Binding(x, d).name = x /\ Binding(x, d).decl = d
    BY DEF Binding
<1>5. IsLast(f, x, n + 1)
    BY <1>1, <1>3, <1>4 DEF IsLast
<1>6. LastNamed(f, x) = n + 1
    BY <1>1, <1>3, <1>5, LastIs
<1>7. type_env_has(f, x) /\ type_env_lookup(f, x) = d
    BY <1>1, <1>3, <1>4, <1>6 DEF type_env_has, type_env_lookup
<1>8. ASSUME NEW y, y # x
      PROVE  /\ type_env_has(f, y) <=> type_env_has(e, y)
             /\ type_env_has(e, y) => type_env_lookup(f, y) = type_env_lookup(e, y)
  <2>1. PICK k : k = LastNamed(e, y) /\ IsLast(e, y, k)
      BY <1>1, LastIs
  <2>2. IsLast(f, y, k)
      BY <1>1, <1>3, <1>4, <1>8, <2>1 DEF IsLast
  <2>3. LastNamed(f, y) = k
      BY <1>1, <1>3, <2>2, LastIs
  <2>4. k # 0 => k \in 1..n
      BY <1>1, <2>1 DEF IsLast
  <2> QED
      BY <1>3, <2>1, <2>3, <2>4 DEF type_env_has, type_env_lookup
<1> QED
    BY <1>3, <1>7, <1>8

-----------------------------------------------------------------------------
(* The table of the code generator.                                        *)
Maybe == Declarations \cup {NoDecl}
TableEntry == [name : Names, value : Maybe, type : Maybe]
Table == Seq(TableEntry)

(* What an operation for x may do to the table.                            *)
Changed(t, u, x) ==
    /\ u \in Table /\ Len(t) <= Len(u)
    /\ \A i \in 1..Len(t) : u[i].name = t[i].name /\ (t[i].name # x => u[i] = t[i])
    /\ \A i \in 1..Len(u) : i \notin 1..Len(t) => u[i].name = x

(* An entry of x that has a type only, which the next value goes to.       *)
Valueless(t, x) == \E i \in 1..Len(t) : t[i].name = x /\ t[i].value = NoDecl

LEMMA TableShape ==
    ASSUME NEW t \in Table
    PROVE  /\ Len(t) \in Nat /\ DOMAIN t = 1..Len(t) /\ t \in Seq(TableEntry)
           /\ \A i \in 1..Len(t) : t[i] \in TableEntry
BY DEF Table

LEMMA ChangedTwice ==
    ASSUME NEW t \in Table, NEW u, NEW w, NEW x, Changed(t, u, x), Changed(u, w, x)
    PROVE  Changed(t, w, x)
<1>1. Len(t) \in Nat /\ Len(u) \in Nat /\ Len(w) \in Nat
    BY TableShape DEF Changed
<1> QED
    BY <1>1 DEF Changed

(* The other names keep what they had.                                     *)
SameFor(t, u, y) ==
    /\ LastNamed(u, y) = LastNamed(t, y)
    /\ vix_get_var(u, y) = vix_get_var(t, y) /\ vix_get_var_type(u, y) = vix_get_var_type(t, y)
    /\ Valueless(u, y) => Valueless(t, y)

LEMMA ChangedSame ==
    ASSUME NEW t \in Table, NEW u, NEW x, Changed(t, u, x), NEW y, y # x
    PROVE  SameFor(t, u, y)
<1>1. /\ Len(t) \in Nat /\ DOMAIN t = 1..Len(t) /\ Len(u) \in Nat /\ DOMAIN u = 1..Len(u)
      /\ Len(t) <= Len(u)
    BY TableShape DEF Changed
<1>2. PICK k : k = LastNamed(t, y) /\ IsLast(t, y, k)
    BY <1>1, LastIs
<1>3. IsLast(u, y, k)
    BY <1>1, <1>2 DEF IsLast, Changed
<1>4. LastNamed(u, y) = k
    BY <1>1, <1>3, LastIs
<1>5. k # 0 => k \in 1..Len(t) /\ t[k].name = y
    BY <1>1, <1>2 DEF IsLast
<1>6. k # 0 => u[k] = t[k]
    BY <1>5 DEF Changed
<1>7. Valueless(u, y) => Valueless(t, y)
    BY DEF Valueless, Changed
<1> QED
    BY <1>2, <1>4, <1>6, <1>7 DEF SameFor, vix_get_var, vix_get_var_type

Added(t, e) == Append(t, e)
Rewritten(t, i, e) == [t EXCEPT ![i] = e]

LEMMA AppendChanges ==
    ASSUME NEW t \in Table, NEW x, NEW e \in TableEntry, e.name = x, NEW u, u = Added(t, e)
    PROVE  /\ Changed(t, u, x) /\ Len(u) = Len(t) + 1 /\ u[Len(t) + 1] = e
           /\ LastNamed(u, x) = Len(t) + 1
<1>1. Len(t) \in Nat /\ DOMAIN t = 1..Len(t) /\ t \in Seq(TableEntry)
    BY TableShape
<1>2. /\ u \in Table /\ Len(u) = Len(t) + 1 /\ u[Len(t) + 1] = e
      /\ \A i \in 1..Len(t) : u[i] = t[i]
    BY <1>1 DEF Table, Added
<1>3. DOMAIN u = 1..Len(t) + 1
    BY <1>2, TableShape
<1>4. IsLast(u, x, Len(t) + 1)
    BY <1>1, <1>2, <1>3 DEF IsLast
<1>5. LastNamed(u, x) = Len(t) + 1
  <2>1. Len(t) + 1 \in Nat
      BY <1>1
  <2> QED
      BY <1>3, <1>4, <2>1, LastIs
<1> QED
    BY <1>1, <1>2, <1>5 DEF Changed

LEMMA EntryChanges ==
    ASSUME NEW t \in Table, NEW i \in 1..Len(t), NEW x, NEW e \in TableEntry, t[i].name = x, e.name = x,
           NEW u, u = Rewritten(t, i, e)
    PROVE  /\ Changed(t, u, x) /\ Len(u) = Len(t) /\ u[i] = e
           /\ \A j \in 1..Len(t) : j # i => u[j] = t[j]
           /\ LastNamed(u, x) = LastNamed(t, x)
<1>1. Len(t) \in Nat /\ DOMAIN t = 1..Len(t) /\ t \in Seq(TableEntry)
    BY TableShape
<1>2. /\ u \in Table /\ Len(u) = Len(t) /\ u[i] = e
      /\ \A j \in 1..Len(t) : j # i => u[j] = t[j]
    BY <1>1, ExceptSeq DEF Table, Rewritten
<1>3. DOMAIN u = 1..Len(t)
    BY <1>2, TableShape
<1>4. PICK k : k = LastNamed(t, x) /\ IsLast(t, x, k)
    BY <1>1, LastIs
<1>5. \A j \in 1..Len(t) : u[j].name = t[j].name
    BY <1>2
<1>6. IsLast(u, x, k)
    BY <1>1, <1>3, <1>4, <1>5 DEF IsLast
<1>7. LastNamed(u, x) = k
    BY <1>1, <1>3, <1>6, LastIs
<1> QED
    BY <1>1, <1>2, <1>4, <1>5, <1>7 DEF Changed

LEMMA SetVarType ==
    ASSUME NEW t \in Table, NEW x \in Names, NEW d \in Declarations, NEW u, u = vix_set_var_type(t, x, d)
    PROVE  /\ Changed(t, u, x)
           /\ LastNamed(t, x) # 0 =>
                /\ vix_get_var_type(u, x) = d /\ vix_get_var(u, x) = vix_get_var(t, x)
                /\ Valueless(u, x) => Valueless(t, x)
           /\ LastNamed(t, x) = 0 /\ Len(t) < MaxVars =>
                vix_get_var_type(u, x) = d /\ vix_get_var(u, x) = NoDecl
           /\ LastNamed(t, x) = 0 /\ ~(Len(t) < MaxVars) => u = t
<1>1. Len(t) \in Nat /\ DOMAIN t = 1..Len(t) /\ t \in Seq(TableEntry)
    BY TableShape
<1>2. PICK k : k = LastNamed(t, x) /\ IsLast(t, x, k)
    BY <1>1, LastIs
<1>3. CASE k # 0
  <2>1. k \in 1..Len(t) /\ t[k].name = x /\ t[k] \in TableEntry
      BY <1>1, <1>2, <1>3, TableShape DEF IsLast
  <2>2. PICK e : e = [t[k] EXCEPT !.type = d]
      OBVIOUS
  <2>3. e \in TableEntry /\ e.name = x /\ e.type = d /\ e.value = t[k].value
      BY <2>1, <2>2 DEF TableEntry, Maybe
  <2>4. u = Rewritten(t, k, e)
      BY <1>2, <1>3, <2>2 DEF vix_set_var_type, Rewritten
  <2>5. /\ Changed(t, u, x) /\ Len(u) = Len(t) /\ u[k] = e
        /\ \A j \in 1..Len(t) : j # k => u[j] = t[j]
        /\ LastNamed(u, x) = LastNamed(t, x)
      BY <2>1, <2>3, <2>4, EntryChanges
  <2>6. vix_get_var_type(u, x) = d /\ vix_get_var(u, x) = vix_get_var(t, x)
      BY <1>2, <1>3, <2>3, <2>5 DEF vix_get_var_type, vix_get_var
  <2>7. Valueless(u, x) => Valueless(t, x)
      BY <2>1, <2>3, <2>5 DEF Valueless
  <2> QED
      BY <1>2, <1>3, <2>5, <2>6, <2>7
<1>4. CASE k = 0 /\ Len(t) < MaxVars
  <2>1. PICK e : e = VarEntry(x, NoDecl, d)
      OBVIOUS
  <2>2. e \in TableEntry /\ e.name = x /\ e.type = d /\ e.value = NoDecl
      BY <2>1 DEF VarEntry, TableEntry, Maybe
  <2>3. u = Added(t, e)
      BY <1>2, <1>4, <2>1 DEF vix_set_var_type, Added
  <2>4. Changed(t, u, x) /\ u[Len(t) + 1] = e /\ LastNamed(u, x) = Len(t) + 1
      BY <2>2, <2>3, AppendChanges
  <2>5. Len(t) + 1 # 0
      BY <1>1
  <2> QED
      BY <1>2, <1>4, <2>2, <2>4, <2>5 DEF vix_get_var_type, vix_get_var
<1>5. CASE k = 0 /\ ~(Len(t) < MaxVars)
  <2>1. u = t
      BY <1>2, <1>5 DEF vix_set_var_type
  <2> QED
      BY <1>1, <1>2, <1>5, <2>1 DEF Changed
<1> QED
    BY <1>3, <1>4, <1>5

LEMMA SetVar ==
    ASSUME NEW t \in Table, NEW x \in Names, NEW d \in Declarations, NEW u, u = vix_set_var(t, x, d)
    PROVE  /\ Changed(t, u, x) /\ (Valueless(u, x) => Valueless(t, x))
           /\ ~Valueless(t, x) /\ Len(t) < MaxVars => LastNamed(u, x) # 0 /\ vix_get_var(u, x) = d
           /\ Valueless(t, x) \/ Len(t) < MaxVars \/ u = t
<1> DEFINE typed == {i \in DOMAIN t : t[i].name = x /\ t[i].value = NoDecl}
<1>1. Len(t) \in Nat /\ DOMAIN t = 1..Len(t) /\ t \in Seq(TableEntry)
    BY TableShape
<1>2. typed # {} <=> Valueless(t, x)
    BY <1>1 DEF Valueless
<1>3. CASE typed # {}
  <2>1. typed \in SUBSET (0..Len(t))
      BY <1>1
  <2>2. Max(typed) \in typed
      BY <1>1, <1>3, <2>1, GreatestOf
  <2>3. PICK k : k = Max(typed)
      OBVIOUS
  <2>4. k \in 1..Len(t) /\ t[k].name = x /\ t[k] \in TableEntry
      BY <1>1, <2>2, <2>3, TableShape
  <2>5. PICK e : e = [t[k] EXCEPT !.value = d]
      OBVIOUS
  <2>6. e \in TableEntry /\ e.name = x
      BY <2>4, <2>5 DEF TableEntry, Maybe
  <2>7. u = Rewritten(t, k, e)
      BY <1>3, <2>3, <2>5 DEF vix_set_var, Rewritten
  <2>8. Changed(t, u, x)
      BY <2>4, <2>6, <2>7, EntryChanges
  <2> QED
      BY <1>2, <1>3, <2>8
<1>4. CASE typed = {} /\ Len(t) < MaxVars
  <2>1. PICK e : e = VarEntry(x, d, NoDecl)
      OBVIOUS
  <2>2. e \in TableEntry /\ e.name = x /\ e.value = d
      BY <2>1 DEF VarEntry, TableEntry, Maybe
  <2>3. u = Added(t, e)
      BY <1>4, <2>1 DEF vix_set_var, Added
  <2>4. /\ Changed(t, u, x) /\ Len(u) = Len(t) + 1 /\ u[Len(t) + 1] = e
        /\ LastNamed(u, x) = Len(t) + 1
      BY <2>2, <2>3, AppendChanges
  <2>5. Len(t) + 1 # 0
      BY <1>1
  <2>6. vix_get_var(u, x) = d
      BY <2>2, <2>4, <2>5 DEF vix_get_var
  <2>7. \A i \in 1..Len(t) : u[i] = t[i]
      BY <1>1, <2>3 DEF Added
  <2>8. ~Valueless(u, x)
    <3>1. d # NoDecl
        BY NoDeclAssumption
    <3>2. \A i \in 1..Len(u) : i \in 1..Len(t) \/ i = Len(t) + 1
        BY <1>1, <2>4
    <3> QED
        BY <1>2, <1>4, <2>2, <2>4, <2>7, <3>1, <3>2 DEF Valueless
  <2> QED
      BY <1>4, <2>4, <2>5, <2>6, <2>8
<1>5. CASE typed = {} /\ ~(Len(t) < MaxVars)
  <2>1. u = t
      BY <1>5 DEF vix_set_var
  <2> QED
      BY <1>1, <1>5, <2>1 DEF Changed
<1> QED
    BY <1>3, <1>4, <1>5

LEMMA DefineVar ==
    ASSUME NEW t \in Table, NEW x \in Names, NEW d \in Declarations, NEW u, u = llvm_define_var(t, x, d)
    PROVE  /\ Changed(t, u, x)
           /\ Valueless(u, x) => Valueless(t, x)
           /\ ~Valueless(t, x) /\ Len(t) < MaxVars =>
                vix_get_var(u, x) = d /\ vix_get_var_type(u, x) = d
<1>1. PICK w : w = vix_set_var(t, x, d)
    OBVIOUS
<1>2. /\ Changed(t, w, x) /\ (Valueless(w, x) => Valueless(t, x))
      /\ ~Valueless(t, x) /\ Len(t) < MaxVars => LastNamed(w, x) # 0 /\ vix_get_var(w, x) = d
      /\ Valueless(t, x) \/ Len(t) < MaxVars \/ w = t
    BY <1>1, SetVar
<1>3. w \in Table /\ u = vix_set_var_type(w, x, d)
    BY <1>1, <1>2 DEF Changed, llvm_define_var
<1>4. /\ Changed(w, u, x)
      /\ LastNamed(w, x) # 0 =>
            /\ vix_get_var_type(u, x) = d /\ vix_get_var(u, x) = vix_get_var(w, x)
            /\ Valueless(u, x) => Valueless(w, x)
      /\ LastNamed(w, x) = 0 /\ ~(Len(w) < MaxVars) => u = w
    BY <1>3, SetVarType
<1>5. Changed(t, u, x)
    BY <1>2, <1>4, ChangedTwice
<1>6. Valueless(u, x) => Valueless(t, x)
    BY <1>2, <1>4
<1> QED
    BY <1>2, <1>4, <1>5, <1>6


-----------------------------------------------------------------------------
(* Blocks clone the environment around them, so what is bound outside is    *)
(* bound inside.                                                           *)
Inner(es) == es[Len(es)]
Opened(es) == Append(es, Inner(es))
Left(es) == SubSeq(es, 1, Len(es) - 1)
Renewed(es, e) == [es EXCEPT ![Len(es)] = e]
Nested(es) ==
    \A x \in Names, j, k \in 1..Len(es) : j <= k /\ type_env_has(es[j], x) => type_env_has(es[k], x)

Loads(t, x, decl) ==
    /\ vix_get_var_type(t, x) = decl
    /\ vix_get_var(t, x) = IF decl[1] = "function" THEN NoDecl ELSE decl

Coming(h, x) == \E i \in DOMAIN h : h[i][2] = x

(* A name that does not clash: its declaration is either still to come in   *)
(* the header, once, or it is what every open block takes the name for and *)
(* the table loads.                                                        *)
ComesOnce(es, t, h, x) ==
    \A i \in DOMAIN h : h[i][2] = x =>
        /\ type_env_has(Inner(es), x) /\ type_env_lookup(Inner(es), x) = h[i]
        /\ LastNamed(t, x) = 0 /\ \A j \in DOMAIN h : h[j][2] = x => j = i
LoadedAlike(es, t, h, x) ==
    \A k \in 1..Len(es) : type_env_has(es[k], x) /\ ~Coming(h, x) /\ Len(t) < MaxVars =>
        Loads(t, x, type_env_lookup(es[k], x))
ValuelessIsBound(es, t, x) == Valueless(t, x) => 1 \in 1..Len(es) /\ type_env_has(es[1], x)
Agreed(es, t, h, x) ==
    ComesOnce(es, t, h, x) /\ LoadedAlike(es, t, h, x) /\ ValuelessIsBound(es, t, x)

HeaderDecl == {"function", "global", "param"} \X Names
Tables(es, t, h, c) ==
    /\ es \in Seq(Env) /\ t \in Table /\ h \in Seq(HeaderDecl)
    /\ Nested(es)
    /\ \A x \in Names \ c : Agreed(es, t, h, x)

LEMMA SameLoads ==
    ASSUME NEW t, NEW u, NEW y, SameFor(t, u, y), NEW d, Loads(t, y, d)
    PROVE  Loads(u, y, d)
BY DEF SameFor, Loads

(* A block is opened, and left.                                            *)
LEMMA CloneKeeps ==
    ASSUME NEW es, NEW t, NEW h, NEW c, Tables(es, t, h, c), Len(es) > 0,
           NEW fs, fs = Opened(es)
    PROVE  Tables(fs, t, h, c) /\ Len(fs) = Len(es) + 1 /\ Inner(fs) = Inner(es)
<1>1. es \in Seq(Env) /\ Len(es) \in Nat /\ Inner(es) \in Env
    BY DEF Tables, Inner
<1>2. /\ fs \in Seq(Env) /\ Len(fs) = Len(es) + 1 /\ \A k \in 1..Len(es) : fs[k] = es[k]
      /\ fs[Len(fs)] = es[Len(es)]
    BY <1>1 DEF Opened, Inner
<1>3. \A k \in 1..Len(fs) : k \in 1..Len(es) \/ k = Len(es) + 1
    BY <1>1, <1>2
<1>4. Inner(fs) = Inner(es)
    BY <1>2 DEF Inner
<1>5. Nested(fs)
  <2> SUFFICES ASSUME NEW x \in Names, NEW j \in 1..Len(fs), NEW k \in 1..Len(fs), j <= k,
                      type_env_has(fs[j], x)
               PROVE  type_env_has(fs[k], x)
      BY DEF Nested
  <2> DEFINE At(i) == IF i = Len(es) + 1 THEN Len(es) ELSE i
  <2>1. At(j) \in 1..Len(es) /\ At(k) \in 1..Len(es) /\ At(j) <= At(k)
      BY <1>1, <1>2
  <2>2. fs[j] = es[At(j)] /\ fs[k] = es[At(k)]
      BY <1>1, <1>2
  <2> HIDE DEF At
  <2> QED
      BY <2>1, <2>2 DEF Tables, Nested
<1>6. ASSUME NEW x \in Names \ c PROVE Agreed(fs, t, h, x)
  <2>1. Agreed(es, t, h, x)
      BY DEF Tables
  <2>2. ComesOnce(fs, t, h, x)
      BY <1>4, <2>1 DEF Agreed, ComesOnce
  <2>3. LoadedAlike(fs, t, h, x)
    <3> SUFFICES ASSUME NEW k \in 1..Len(fs), type_env_has(fs[k], x), ~Coming(h, x), Len(t) < MaxVars
                 PROVE  Loads(t, x, type_env_lookup(fs[k], x))
        BY DEF LoadedAlike
    <3>1. PICK j \in 1..Len(es) : fs[k] = es[j]
        BY <1>1, <1>2
    <3> QED
        BY <2>1, <3>1 DEF Agreed, LoadedAlike
  <2>4. ValuelessIsBound(fs, t, x)
      BY <1>1, <1>2, <2>1 DEF Agreed, ValuelessIsBound
  <2> QED
      BY <2>2, <2>3, <2>4 DEF Agreed
<1> QED
    BY <1>2, <1>4, <1>5, <1>6 DEF Tables

LEMMA DropKeeps ==
    ASSUME NEW es, NEW t, NEW c, Tables(es, t, <<>>, c), Len(es) > 1,
           NEW fs, fs = Left(es)
    PROVE  Tables(fs, t, <<>>, c) /\ Len(fs) = Len(es) - 1
<1>1. es \in Seq(Env) /\ Len(es) \in Nat
    BY DEF Tables
<1>2. fs \in Seq(Env) /\ Len(fs) = Len(es) - 1 /\ \A k \in 1..Len(fs) : fs[k] = es[k]
    BY <1>1 DEF Left
<1>3. Nested(fs)
    BY <1>1, <1>2 DEF Tables, Nested
<1>4. ASSUME NEW x \in Names \ c PROVE Agreed(fs, t, <<>>, x)
  <2>1. Agreed(es, t, <<>>, x)
      BY DEF Tables
  <2>2. ComesOnce(fs, t, <<>>, x)
      BY DEF ComesOnce
  <2>3. LoadedAlike(fs, t, <<>>, x)
      BY <1>1, <1>2, <2>1 DEF Agreed, LoadedAlike
  <2>4. ValuelessIsBound(fs, t, x)
      BY <1>1, <1>2, <2>1 DEF Agreed, ValuelessIsBound
  <2> QED
      BY <2>2, <2>3, <2>4 DEF Agreed
<1> QED
    BY <1>2, <1>3, <1>4 DEF Tables

(* A local variable is declared in the innermost block.                    *)
LEMMA DeclareKeeps ==
    ASSUME NEW es, NEW t, NEW c, Tables(es, t, <<>>, c), Len(es) > 0,
           NEW x \in Names, NEW n \in Nat,
           NEW fs, fs = Renewed(es, type_env_extend(Inner(es), x, Local(n))),
           NEW u, u = llvm_define_var(t, x, Local(n)),
           NEW b, b = IF type_env_has(Inner(es), x) THEN c \cup {x} ELSE c
    PROVE  Tables(fs, u, <<>>, b) /\ Len(fs) = Len(es)
<1>1. es \in Seq(Env) /\ Len(es) \in Nat /\ Inner(es) \in Env /\ t \in Table /\ <<>> \in Seq(HeaderDecl)
    BY DEF Tables, Inner
<1>2. PICK d : d = Local(n)
    OBVIOUS
<1>3. d \in Declarations /\ d[1] # "function"
    BY <1>2 DEF Local, Declarations
<1>4. PICK e : e = type_env_extend(Inner(es), x, d)
    OBVIOUS
<1>5. /\ e \in Env /\ type_env_has(e, x) /\ type_env_lookup(e, x) = d
      /\ \A y : y # x => /\ type_env_has(e, y) <=> type_env_has(Inner(es), y)
                         /\ type_env_has(Inner(es), y) => type_env_lookup(e, y) = type_env_lookup(Inner(es), y)
    BY <1>1, <1>3, <1>4, ExtendBinds
<1>6. /\ fs \in Seq(Env) /\ Len(fs) = Len(es) /\ fs[Len(es)] = e
      /\ \A k \in 1..Len(es) : k # Len(es) => fs[k] = es[k]
    BY <1>1, <1>2, <1>4, <1>5, ExceptSeq DEF Renewed
<1>7. /\ Changed(t, u, x) /\ (Valueless(u, x) => Valueless(t, x))
      /\ ~Valueless(t, x) /\ Len(t) < MaxVars => vix_get_var(u, x) = d /\ vix_get_var_type(u, x) = d
    BY <1>1, <1>2, <1>3, DefineVar
<1>8. u \in Table /\ (Len(u) < MaxVars => Len(t) < MaxVars)
    BY <1>1, <1>7, TableShape, TableAssumption DEF Changed
<1>9. \A k \in 1..Len(es) : \A y :
          y # x => /\ type_env_has(fs[k], y) <=> type_env_has(es[k], y)
                   /\ type_env_has(es[k], y) => type_env_lookup(fs[k], y) = type_env_lookup(es[k], y)
    BY <1>5, <1>6 DEF Inner
<1>10. Nested(fs)
  <2> SUFFICES ASSUME NEW y \in Names, NEW j \in 1..Len(fs), NEW k \in 1..Len(fs), j <= k,
                      type_env_has(fs[j], y)
               PROVE  type_env_has(fs[k], y)
      BY DEF Nested
  <2>1. CASE y # x
      BY <1>6, <1>9, <2>1 DEF Tables, Nested
  <2>2. CASE y = x /\ k = Len(es)
      BY <1>5, <1>6, <2>2
  <2>3. CASE y = x /\ k # Len(es)
    <3>1. j \in 1..Len(es) /\ k \in 1..Len(es) /\ j # Len(es)
      <4>1. j \in 1..Len(es) /\ k \in 1..Len(es)
          BY <1>6
      <4> QED
          BY <1>1, <2>3, <4>1
    <3> QED
        BY <1>6, <2>3, <3>1 DEF Tables, Nested
  <2> QED
      BY <2>1, <2>2, <2>3
<1>11. ASSUME NEW y \in Names \ b, y # x PROVE Agreed(fs, u, <<>>, y)
  <2>1. Agreed(es, t, <<>>, y)
      BY DEF Tables
  <2>2. SameFor(t, u, y)
      BY <1>1, <1>7, <1>11, ChangedSame
  <2>3. LoadedAlike(fs, u, <<>>, y)
    <3> SUFFICES ASSUME NEW k \in 1..Len(fs), type_env_has(fs[k], y), Len(u) < MaxVars
                 PROVE  Loads(u, y, type_env_lookup(fs[k], y))
        BY DEF LoadedAlike
    <3>1. k \in 1..Len(es) /\ type_env_has(es[k], y) /\ type_env_lookup(fs[k], y) = type_env_lookup(es[k], y)
        BY <1>6, <1>9, <1>11
    <3>2. ~Coming(<<>>, y)
        BY DEF Coming
    <3>3. Loads(t, y, type_env_lookup(es[k], y))
        BY <1>8, <2>1, <3>1, <3>2 DEF Agreed, LoadedAlike
    <3> QED
        BY <2>2, <3>1, <3>3, SameLoads
  <2>4. ValuelessIsBound(fs, u, y)
      BY <1>1, <1>6, <1>9, <1>11, <2>1, <2>2 DEF Agreed, ValuelessIsBound, SameFor
  <2> QED
      BY <2>3, <2>4 DEF Agreed, ComesOnce
<1>12. ASSUME x \notin b PROVE Agreed(fs, u, <<>>, x)
  <2>1. ~type_env_has(Inner(es), x) /\ x \in Names \ c
      BY <1>12
  <2>2. \A k \in 1..Len(es) : ~type_env_has(es[k], x)
      BY <1>1, <2>1 DEF Tables, Nested, Inner
  <2>3. ~Valueless(t, x)
      BY <2>1, <2>2 DEF Tables, Agreed, ValuelessIsBound
  <2>4. LoadedAlike(fs, u, <<>>, x)
    <3> SUFFICES ASSUME NEW k \in 1..Len(fs), type_env_has(fs[k], x), Len(u) < MaxVars
                 PROVE  Loads(u, x, type_env_lookup(fs[k], x))
        BY DEF LoadedAlike
    <3>1. k = Len(es)
        BY <1>6, <2>2
    <3>2. type_env_lookup(fs[k], x) = d
        BY <1>5, <1>6, <3>1
    <3> QED
        BY <1>3, <1>7, <1>8, <2>3, <3>2 DEF Loads
  <2>5. ValuelessIsBound(fs, u, x)
      BY <1>7, <2>3 DEF ValuelessIsBound
  <2> QED
      BY <2>4, <2>5 DEF Agreed, ComesOnce
<1>13. \A y \in Names \ b : Agreed(fs, u, <<>>, y)
    BY <1>11, <1>12
<1> QED
    BY <1>1, <1>6, <1>8, <1>10, <1>13 DEF Tables


(* A declaration of the header is entered.                                 *)
LEMMA EmitKeeps ==
    ASSUME NEW es, NEW t, NEW h, NEW c, Tables(es, t, h, c), Len(es) = 1, h # <<>>,
           NEW u, u = Enter(t, Head(h)), NEW g, g = Tail(h)
    PROVE  Tables(es, u, g, c)
<1>1. es \in Seq(Env) /\ es[1] \in Env /\ Inner(es) = es[1] /\ t \in Table /\ h \in Seq(HeaderDecl)
    BY DEF Tables, Inner
<1>2. PICK d : d = Head(h)
    OBVIOUS
<1>3. /\ Len(h) \in Nat \ {0} /\ h[1] = d /\ d \in HeaderDecl
      /\ g \in Seq(HeaderDecl) /\ Len(g) = Len(h) - 1 /\ \A i \in 1..Len(g) : g[i] = h[i + 1]
    BY <1>1, <1>2
<1>4. PICK x \in Names : x = d[2]
    BY <1>3 DEF HeaderDecl
<1>5. d \in Declarations
    BY <1>3 DEF HeaderDecl, Declarations
<1>6. /\ d[1] = "function" => u = vix_set_var_type(t, x, d)
      /\ d[1] # "function" => u = llvm_define_var(t, x, d)
    BY <1>2, <1>4 DEF Enter
<1>7. /\ Changed(t, u, x)
      /\ LastNamed(t, x) = 0 /\ ~Valueless(t, x) /\ Len(t) < MaxVars => Loads(u, x, d)
  <2>1. CASE d[1] = "function"
      BY <1>1, <1>5, <1>6, <2>1, SetVarType DEF Loads
  <2>2. CASE d[1] # "function"
      BY <1>1, <1>5, <1>6, <2>2, DefineVar DEF Loads
  <2> QED
      BY <2>1, <2>2
<1>8. u \in Table /\ (Len(u) < MaxVars => Len(t) < MaxVars)
    BY <1>1, <1>7, TableShape, TableAssumption DEF Changed
<1>9. /\ \A i \in DOMAIN h : i = 1 \/ (i - 1 \in DOMAIN g /\ g[i - 1] = h[i])
      /\ \A i \in DOMAIN g : i + 1 \in DOMAIN h /\ g[i] = h[i + 1] /\ i + 1 # 1
      /\ 1 \in DOMAIN h
      /\ \A i, j \in DOMAIN g : i + 1 = j + 1 => i = j
    BY <1>1, <1>3
<1>10. ASSUME NEW y \in Names \ c, y # x PROVE Agreed(es, u, g, y)
  <2>1. Agreed(es, t, h, y)
      BY DEF Tables
  <2>2. SameFor(t, u, y)
      BY <1>1, <1>7, <1>10, ChangedSame
  <2>3. Coming(h, y) => Coming(g, y)
      BY <1>3, <1>4, <1>9, <1>10 DEF Coming
  <2>4. ComesOnce(es, u, g, y)
    <3> SUFFICES ASSUME NEW i \in DOMAIN g, g[i][2] = y
                 PROVE  /\ type_env_has(Inner(es), y) /\ type_env_lookup(Inner(es), y) = g[i]
                        /\ LastNamed(u, y) = 0 /\ \A j \in DOMAIN g : g[j][2] = y => j = i
        BY DEF ComesOnce
    <3>1. i + 1 \in DOMAIN h /\ h[i + 1][2] = y /\ g[i] = h[i + 1]
        BY <1>9
    <3>2. /\ type_env_has(Inner(es), y) /\ type_env_lookup(Inner(es), y) = g[i]
          /\ LastNamed(t, y) = 0 /\ \A j \in DOMAIN h : h[j][2] = y => j = i + 1
        BY <2>1, <3>1 DEF Agreed, ComesOnce
    <3> QED
        BY <1>9, <2>2, <3>2 DEF SameFor
  <2>5. LoadedAlike(es, u, g, y)
      BY <1>8, <2>1, <2>2, <2>3, SameLoads DEF Agreed, LoadedAlike
  <2>6. ValuelessIsBound(es, u, y)
      BY <2>1, <2>2 DEF Agreed, ValuelessIsBound, SameFor
  <2> QED
      BY <2>4, <2>5, <2>6 DEF Agreed
<1>11. ASSUME x \notin c PROVE Agreed(es, u, g, x)
  <2>1. /\ type_env_has(es[1], x) /\ type_env_lookup(es[1], x) = d
        /\ LastNamed(t, x) = 0 /\ \A j \in DOMAIN h : h[j][2] = x => j = 1
      BY <1>1, <1>3, <1>4, <1>9, <1>11 DEF Tables, Agreed, ComesOnce
  <2>2. ~Valueless(t, x)
    <3>1. Len(t) \in Nat /\ DOMAIN t = 1..Len(t)
        BY <1>1, TableShape
    <3>2. IsLast(t, x, 0)
        BY <2>1, <3>1, LastIs
    <3> QED
        BY <3>1, <3>2 DEF IsLast, Valueless
  <2>3. \A j \in DOMAIN g : g[j][2] # x
      BY <1>9, <2>1
  <2>4. \A k \in 1..Len(es) : k = 1
      OBVIOUS
  <2>5. LoadedAlike(es, u, g, x)
      BY <1>7, <1>8, <2>1, <2>2, <2>4 DEF LoadedAlike
  <2>6. ValuelessIsBound(es, u, x)
      BY <2>1 DEF ValuelessIsBound
  <2> QED
      BY <2>3, <2>5, <2>6 DEF Agreed, ComesOnce
<1>12. \A y \in Names \ c : Agreed(es, u, g, y)
    BY <1>10, <1>11
<1> QED
    BY <1>1, <1>3, <1>8, <1>12 DEF Tables

(* Three lists one after the other.                                        *)
LEMMA Joined ==
    ASSUME NEW S, NEW q \in Seq(S), NEW r \in Seq(S), NEW s \in Seq(S), NEW w, w = q \o r \o s
    PROVE  /\ w \in Seq(S) /\ Len(w) = Len(q) + Len(r) + Len(s)
           /\ \A i \in 1..Len(q) : w[i] = q[i]
           /\ \A i \in 1..Len(r) : w[Len(q) + i] = r[i]
           /\ \A i \in 1..Len(s) : w[Len(q) + Len(r) + i] = s[i]
<1>1. PICK v : v = q \o r
    OBVIOUS
<1>2. /\ v \in Seq(S) /\ Len(v) = Len(q) + Len(r)
      /\ \A i \in 1..Len(v) : v[i] = IF i <= Len(q) THEN q[i] ELSE r[i - Len(q)]
    BY <1>1, ConcatProperties
<1>3. w = v \o s
    BY <1>1
<1>4. /\ w \in Seq(S) /\ Len(w) = Len(v) + Len(s)
      /\ \A i \in 1..Len(w) : w[i] = IF i <= Len(v) THEN v[i] ELSE s[i - Len(v)]
  <2>1. v \in Seq(S)
      BY <1>2
  <2>2. /\ v \o s \in Seq(S) /\ Len(v \o s) = Len(v) + Len(s)
        /\ \A i \in 1..Len(v) + Len(s) : (v \o s)[i] = IF i <= Len(v) THEN v[i] ELSE s[i - Len(v)]
      BY ONLY <2>1, s \in Seq(S), ConcatProperties, Zenon
  <2> QED
      BY <1>3, <2>2, Zenon
<1>5. Len(q) \in Nat /\ Len(r) \in Nat /\ Len(s) \in Nat
    OBVIOUS
<1> QED
    BY <1>2, <1>4, <1>5

LEMMA TaggedIs ==
    ASSUME NEW tag \in {"function", "global", "param"}, NEW q \in Seq(Names), NEW w, w = Tagged(tag, q)
    PROVE  /\ w \in Seq(HeaderDecl) /\ Len(w) = Len(q) /\ Len(q) \in Nat
           /\ \A i \in 1..Len(q) : w[i] = <<tag, q[i]>>
<1>1. Len(q) \in Nat /\ DOMAIN q = 1..Len(q) /\ \A i \in 1..Len(q) : q[i] \in Names
    OBVIOUS
<1>2. w = [i \in 1..Len(q) |-> <<tag, q[i]>>]
    BY <1>1 DEF Tagged
<1> QED
    BY <1>1, <1>2 DEF HeaderDecl


(* The environment and the header hold the same declarations, in different *)
(* orders: the i-th of the header is the At(i)-th of the environment.      *)
Aligns(names, h, e, at) ==
    /\ at \in [DOMAIN h -> DOMAIN e]
    /\ \A i, j \in DOMAIN h : at[i] = at[j] => i = j
    /\ \A i \in DOMAIN h : e[at[i]].decl = h[i] /\ names[at[i]] = h[i][2]
    /\ \A k \in DOMAIN e : \E i \in DOMAIN h : at[i] = k
Matches(names, h, e) ==
    /\ h \in Seq(HeaderDecl) /\ e \in Env /\ Len(names) \in Nat
    /\ DOMAIN names = 1..Len(names) /\ DOMAIN e = 1..Len(names) /\ DOMAIN h = 1..Len(names)
    /\ \A k \in DOMAIN e : e[k].name = names[k]
    /\ \E at : Aligns(names, h, e, at)

LEMMA HeaderMatches ==
    ASSUME NEW p \in Params
    PROVE  Matches(FunctionList \o Globals \o p, Header(p), Environment(p))
<1>1. FunctionList \in Seq(Names) /\ Globals \in Seq(Names) /\ p \in Seq(Names)
    BY FunctionAssumption, NamesAssumption
<1> DEFINE F == Len(FunctionList)
           G == Len(Globals)
           P == Len(p)
           tf == Tagged("function", FunctionList)
           tg == Tagged("global", Globals)
           tp == Tagged("param", p)
<1>2. /\ tf \in Seq(HeaderDecl) /\ Len(tf) = F /\ F \in Nat
      /\ \A i \in 1..F : tf[i] = <<"function", FunctionList[i]>>
    BY <1>1, TaggedIs
<1>3. /\ tg \in Seq(HeaderDecl) /\ Len(tg) = G /\ G \in Nat
      /\ \A i \in 1..G : tg[i] = <<"global", Globals[i]>>
    BY <1>1, TaggedIs
<1>4. /\ tp \in Seq(HeaderDecl) /\ Len(tp) = P /\ P \in Nat
      /\ \A i \in 1..P : tp[i] = <<"param", p[i]>>
    BY <1>1, TaggedIs
<1> HIDE DEF tf, tg, tp
<1>5. PICK names : names = FunctionList \o Globals \o p
    OBVIOUS
<1>6. /\ names \in Seq(Names) /\ Len(names) = F + G + P
      /\ \A i \in 1..F : names[i] = FunctionList[i]
      /\ \A i \in 1..G : names[F + i] = Globals[i]
      /\ \A i \in 1..P : names[F + G + i] = p[i]
    BY <1>1, <1>5, Joined
<1>7. PICK decls : decls = tf \o tg \o tp
    OBVIOUS
<1>8. /\ decls \in Seq(HeaderDecl) /\ Len(decls) = F + G + P
      /\ \A i \in 1..F : decls[i] = tf[i]
      /\ \A i \in 1..G : decls[F + i] = tg[i]
      /\ \A i \in 1..P : decls[F + G + i] = tp[i]
  <2>1. /\ decls \in Seq(HeaderDecl) /\ Len(decls) = Len(tf) + Len(tg) + Len(tp)
        /\ \A i \in 1..Len(tf) : decls[i] = tf[i]
        /\ \A i \in 1..Len(tg) : decls[Len(tf) + i] = tg[i]
        /\ \A i \in 1..Len(tp) : decls[Len(tf) + Len(tg) + i] = tp[i]
    <3>1. tf \in Seq(HeaderDecl) /\ tg \in Seq(HeaderDecl) /\ tp \in Seq(HeaderDecl)
        BY <1>2, <1>3, <1>4
    <3> QED
        BY ONLY <3>1, <1>7, Joined
  <2> QED
      BY <1>2, <1>3, <1>4, <2>1
<1>9. PICK h : h = Header(p)
    OBVIOUS
<1>10. /\ h \in Seq(HeaderDecl) /\ Len(h) = P + F + G
       /\ \A i \in 1..P : h[i] = tp[i]
       /\ \A i \in 1..F : h[P + i] = tf[i]
       /\ \A i \in 1..G : h[P + F + i] = tg[i]
  <2>1. h = tp \o tf \o tg
      BY <1>9 DEF Header, tf, tg, tp
  <2> QED
    <3>1. tf \in Seq(HeaderDecl) /\ tg \in Seq(HeaderDecl) /\ tp \in Seq(HeaderDecl)
        BY <1>2, <1>3, <1>4
    <3>2. /\ h \in Seq(HeaderDecl) /\ Len(h) = Len(tp) + Len(tf) + Len(tg)
          /\ \A i \in 1..Len(tp) : h[i] = tp[i]
          /\ \A i \in 1..Len(tf) : h[Len(tp) + i] = tf[i]
          /\ \A i \in 1..Len(tg) : h[Len(tp) + Len(tf) + i] = tg[i]
        BY ONLY <2>1, <3>1, Joined
    <3> QED
        BY <1>2, <1>3, <1>4, <3>2
<1>11. PICK e : e = Environment(p)
    OBVIOUS
<1> HIDE DEF F, G, P
<1>12. DOMAIN decls = 1..F + G + P /\ DOMAIN h = 1..F + G + P /\ DOMAIN names = 1..F + G + P
    BY <1>2, <1>3, <1>4, <1>6, <1>8, <1>10
<1>13. e = [k \in 1..F + G + P |-> Binding(decls[k][2], decls[k])]
    BY <1>7, <1>11, <1>12 DEF Environment, tf, tg, tp
<1>14. \A k \in 1..F + G + P : decls[k] \in HeaderDecl /\ decls[k][2] = names[k]
  <2> SUFFICES ASSUME NEW k \in 1..F + G + P PROVE decls[k] \in HeaderDecl /\ decls[k][2] = names[k]
      OBVIOUS
  <2>1. decls[k] \in HeaderDecl
      BY <1>8, <1>12
  <2>2. CASE k \in 1..F
      BY <1>2, <1>6, <1>8, <2>2
  <2>3. CASE k \in F + 1..F + G
    <3>1. PICK i \in 1..G : k = F + i
        BY <1>2, <1>3, <2>3
    <3> QED
        BY <1>3, <1>6, <1>8, <3>1
  <2>4. CASE k \in F + G + 1..F + G + P
    <3>1. PICK i \in 1..P : k = F + G + i
        BY <1>2, <1>3, <1>4, <2>4
    <3> QED
        BY <1>4, <1>6, <1>8, <3>1
  <2> QED
      BY <1>2, <1>3, <1>4, <2>1, <2>2, <2>3, <2>4
<1>15. \A k \in 1..F + G + P : e[k].name = names[k] /\ e[k].decl = decls[k] /\ e[k] \in EnvEntry
    BY <1>13, <1>14 DEF Binding, EnvEntry, HeaderDecl, Declarations
<1>16. e \in Env
  <2>1. PICK n \in Nat : n = F + G + P
      BY <1>2, <1>3, <1>4
  <2>2. e \in [1..n -> EnvEntry]
      BY <1>13, <1>15, <2>1
  <2> QED
      BY <2>1, <2>2, SeqDef DEF Env
<1> DEFINE at == [i \in 1..F + G + P |-> IF i <= P THEN F + G + i ELSE i - P]
<1>17. at \in [1..F + G + P -> 1..F + G + P]
    BY <1>2, <1>3, <1>4
<1>18. \A i, j \in 1..F + G + P : at[i] = at[j] => i = j
    BY <1>2, <1>3, <1>4
<1>19. \A k \in 1..F + G + P : \E i \in 1..F + G + P : at[i] = k
  <2> SUFFICES ASSUME NEW k \in 1..F + G + P PROVE \E i \in 1..F + G + P : at[i] = k
      OBVIOUS
  <2>1. CASE k <= F + G
    <3>1. k + P \in 1..F + G + P /\ at[k + P] = k
        BY <1>2, <1>3, <1>4, <2>1
    <3> QED
        BY <3>1
  <2>2. CASE k > F + G
    <3>1. k - (F + G) \in 1..F + G + P /\ at[k - (F + G)] = k
        BY <1>2, <1>3, <1>4, <2>2
    <3> QED
        BY <3>1
  <2> QED
      BY <1>2, <1>3, <1>4, <2>1, <2>2
<1>20. \A i \in 1..F + G + P : decls[at[i]] = h[i]
  <2> SUFFICES ASSUME NEW i \in 1..F + G + P PROVE decls[at[i]] = h[i]
      OBVIOUS
  <2>1. CASE i <= P
    <3>1. i \in 1..P /\ at[i] = F + G + i
        BY <1>4, <2>1
    <3> QED
        BY <1>8, <1>10, <3>1
  <2>2. CASE i > P /\ i <= P + F
    <3>1. PICK j \in 1..F : i = P + j
        BY <1>2, <1>4, <2>2
    <3>2. at[i] = j
        BY <1>2, <1>4, <3>1
    <3> QED
        BY <1>8, <1>10, <3>1, <3>2
  <2>3. CASE i > P + F
    <3>1. PICK j \in 1..G : i = P + F + j
        BY <1>2, <1>3, <1>4, <2>3
    <3>2. at[i] = F + j
        BY <1>2, <1>3, <1>4, <3>1
    <3> QED
        BY <1>8, <1>10, <3>1, <3>2
  <2> QED
      BY <1>2, <1>4, <2>1, <2>2, <2>3
<1> HIDE DEF at
<1>21. \A i \in 1..F + G + P : e[at[i]].decl = h[i] /\ names[at[i]] = h[i][2]
    BY <1>14, <1>15, <1>17, <1>20
<1>22. F + G + P \in Nat /\ Len(names) = F + G + P /\ DOMAIN e = 1..F + G + P
    BY <1>2, <1>3, <1>4, <1>6, <1>13
<1>23. Aligns(names, h, e, at)
  <2>1. at \in [DOMAIN h -> DOMAIN e]
      BY <1>12, <1>17, <1>22
  <2> QED
      BY <2>1, <1>12, <1>18, <1>19, <1>21, <1>22 DEF Aligns
<1>24. /\ h \in Seq(HeaderDecl) /\ e \in Env /\ Len(names) \in Nat
       /\ DOMAIN names = 1..Len(names) /\ DOMAIN e = 1..Len(names) /\ DOMAIN h = 1..Len(names)
       /\ \A k \in DOMAIN e : e[k].name = names[k]
    BY <1>10, <1>12, <1>15, <1>16, <1>22
<1>25. Matches(names, h, e)
    BY <1>23, <1>24 DEF Matches
<1> QED
    BY <1>5, <1>9, <1>11, <1>25


LEMMA HeaderKeeps ==
    ASSUME NEW p \in Params
    PROVE  Tables(<<Environment(p)>>, <<>>, Header(p), Repeated(FunctionList \o Globals \o p))
<1>1. PICK names, h, e : /\ names = FunctionList \o Globals \o p /\ h = Header(p) /\ e = Environment(p)
                         /\ Matches(names, h, e)
    BY HeaderMatches
<1>2. /\ h \in Seq(HeaderDecl) /\ e \in Env
      /\ DOMAIN names = DOMAIN e /\ DOMAIN h = DOMAIN e
      /\ \A k \in DOMAIN e : e[k].name = names[k]
    BY <1>1 DEF Matches
<1>3. PICK at :
          /\ at \in [DOMAIN h -> DOMAIN e]
          /\ \A i, j \in DOMAIN h : at[i] = at[j] => i = j
          /\ \A i \in DOMAIN h : e[at[i]].decl = h[i] /\ names[at[i]] = h[i][2]
          /\ \A k \in DOMAIN e : \E i \in DOMAIN h : at[i] = k
    BY <1>1 DEF Matches, Aligns
<1>4. PICK es : es = <<e>>
    OBVIOUS
<1>5. es \in Seq(Env) /\ Len(es) = 1 /\ es[1] = e /\ Inner(es) = e
    BY <1>2, <1>4 DEF Inner
<1>6. <<>> \in Table /\ Len(<<>>) = 0 /\ DOMAIN <<>> = 1..0
    BY DEF Table
<1>7. ASSUME NEW x \in Names \ Repeated(names) PROVE Agreed(es, <<>>, h, x)
  <2>1. \A j, k \in DOMAIN e : names[j] = x /\ names[k] = x => j = k
      BY <1>2 DEF Repeated
  <2>2. LastNamed(<<>>, x) = 0
    <3>1. IsLast(<<>>, x, 0)
        BY <1>6 DEF IsLast
    <3> QED
        BY <1>6, <3>1, LastIs
  <2>3. ComesOnce(es, <<>>, h, x)
    <3> SUFFICES ASSUME NEW i \in DOMAIN h, h[i][2] = x
                 PROVE  /\ type_env_has(e, x) /\ type_env_lookup(e, x) = h[i]
                        /\ \A j \in DOMAIN h : h[j][2] = x => j = i
        BY <1>5, <2>2 DEF ComesOnce
    <3>1. at[i] \in DOMAIN e /\ e[at[i]].name = x /\ e[at[i]].decl = h[i]
        BY <1>2, <1>3
    <3>2. type_env_has(e, x) /\ LastNamed(e, x) \in DOMAIN e /\ e[LastNamed(e, x)].name = x
        BY <1>2, <3>1, HasMeans
    <3>3. LastNamed(e, x) = at[i]
        BY <1>2, <2>1, <3>1, <3>2
    <3>4. \A j \in DOMAIN h : h[j][2] = x => j = i
      <4> SUFFICES ASSUME NEW j \in DOMAIN h, h[j][2] = x PROVE j = i
          OBVIOUS
      <4>1. at[j] \in DOMAIN e /\ names[at[j]] = x /\ names[at[i]] = x
          BY <1>3
      <4>2. at[j] = at[i]
          BY <2>1, <3>1, <4>1
      <4> QED
          BY <1>3, <4>2
    <3> QED
        BY <3>1, <3>2, <3>3, <3>4 DEF type_env_lookup
  <2>4. type_env_has(e, x) => Coming(h, x)
    <3> SUFFICES ASSUME type_env_has(e, x) PROVE Coming(h, x)
        OBVIOUS
    <3>1. PICK k \in DOMAIN e : e[k].name = x
        BY <1>2, HasMeans
    <3>2. PICK i \in DOMAIN h : at[i] = k
        BY <1>3
    <3>3. names[at[i]] = h[i][2] /\ names[k] = x
        BY <1>2, <1>3, <3>1
    <3> QED
        BY <3>2, <3>3 DEF Coming
  <2>5. \A k \in 1..Len(es) : es[k] = e
      BY <1>5
  <2>6. LoadedAlike(es, <<>>, h, x)
      BY <2>4, <2>5 DEF LoadedAlike
  <2>7. ValuelessIsBound(es, <<>>, x)
      BY <1>6 DEF ValuelessIsBound, Valueless
  <2> QED
      BY <2>3, <2>6, <2>7 DEF Agreed
<1>8. Nested(es)
  <2>1. \A k \in 1..Len(es) : es[k] = e
      BY <1>5
  <2> QED
      BY <2>1 DEF Nested
<1>9. Tables(es, <<>>, h, Repeated(names))
    BY <1>2, <1>5, <1>6, <1>7, <1>8 DEF Tables
<1> QED
    BY <1>1, <1>4, <1>9

-----------------------------------------------------------------------------
(* The scope and the environments.  Each open block binds what the slots   *)
(* up to its depth hold.                                                   *)
Slotted(s, x, d) == \E i \in InUse(s) : s.entries[i].name = x /\ s.entries[i].depth <= d
Means(s, x, d) == x \in Functions \/ Slotted(s, x, d)

BoundIn(s, es) ==
    /\ Len(es) = s.depth + 1
    /\ \A k \in 1..Len(es), x \in Names \ {Blank} : type_env_has(es[k], x) <=> Means(s, x, k - 1)
BoundAtEntry(s, es, p) ==
    /\ s.depth = 0 /\ Len(es) = 1
    /\ \A x \in Names \ {Blank} :
          type_env_has(es[1], x) <=> Means(s, x, 0) \/ \E i \in DOMAIN p : p[i] = x

LEMMA ContainsMeans ==
    ASSUME NEW s, Good(s), NEW x
    PROVE  contains(s, x) <=> Slotted(s, x, s.depth)
<1> DEFINE S == {0} \cup Hits(s, x)
<1>1. s.active_len \in Nat /\ Hits(s, x) \subseteq 1..s.active_len
    BY DEF Good, Scope, Hits
<1>2. S \in SUBSET (0..s.active_len) /\ S # {}
    BY <1>1
<1>3. Max(S) \in S /\ \A y \in S : Max(S) >= y
    BY <1>1, <1>2, GreatestOf
<1>4. Slotted(s, x, s.depth) <=> Hits(s, x) # {}
    BY DEF Slotted, Hits, InUse
<1>5. lookup(s, x) = Max(S)
    BY DEF lookup
<1>6. PICK m : m = Max(S)
    OBVIOUS
<1>7. m # 0 <=> Hits(s, x) # {}
    BY <1>1, <1>3, <1>6
<1> QED
    BY <1>4, <1>5, <1>6, <1>7 DEF contains

LEMMA PushSlots ==
    ASSUME NEW s, Good(s), NEW x, NEW d
    PROVE  /\ Slotted(scope_push(s), x, d) <=> Slotted(s, x, d)
           /\ Slotted(s, x, s.depth + 1) <=> Slotted(s, x, s.depth)
           /\ scope_push(s).depth = s.depth + 1
<1>1. s.depth \in Nat /\ \A i \in InUse(s) : s.entries[i].depth \in Nat /\ s.entries[i].depth <= s.depth
    BY EntryType DEF Good, Scope, Shallow
<1>2. /\ scope_push(s).entries = s.entries /\ scope_push(s).active_len = s.active_len
      /\ scope_push(s).depth = s.depth + 1
    BY DEF Good, Scope, scope_push
<1>3. InUse(scope_push(s)) = InUse(s)
    BY <1>2 DEF InUse
<1>4. Slotted(s, x, s.depth + 1) <=> Slotted(s, x, s.depth)
    BY <1>1 DEF Slotted
<1> QED
    BY <1>2, <1>3, <1>4 DEF Slotted

LEMMA PopSlots ==
    ASSUME NEW s, Good(s), s.depth > 0, NEW x, NEW d \in 0..s.depth - 1
    PROVE  (Slotted(scope_pop(s), x, d) <=> Slotted(s, x, d)) /\ scope_pop(s).depth = s.depth - 1
<1>1. /\ s.depth \in Nat /\ s.active_len \in Nat
      /\ \A i \in InUse(s) : s.entries[i].depth \in Nat
    BY EntryType DEF Good, Scope
<1>2. PICK k : k = Keep(s) /\ k \in 0..s.active_len /\ SplitsAt(s, s.depth, k)
    BY KeepSplits
<1>3. /\ scope_pop(s).entries = s.entries /\ scope_pop(s).active_len = k
      /\ scope_pop(s).depth = s.depth - 1
    BY <1>2 DEF Good, Scope, scope_pop
<1>4. InUse(scope_pop(s)) = {i \in InUse(s) : s.entries[i].depth < s.depth}
    BY <1>1, <1>2, <1>3 DEF InUse, SplitsAt
<1>5. \A i \in InUse(s) : s.entries[i].depth <= d => s.entries[i].depth < s.depth
    BY <1>1
<1> QED
    BY <1>3, <1>4, <1>5 DEF Slotted

LEMMA PlaceSlots ==
    ASSUME NEW s, Good(s), NEW x \in Names, NEW warn \in BOOLEAN, NEW at \in Positions \cup {NoPosition},
           NEW y, NEW d
    PROVE  /\ Slotted(Place(s, NewEntry(s, x, warn, at)), y, d)
                  <=> Slotted(s, y, d) \/ (y = x /\ s.depth <= d)
           /\ Place(s, NewEntry(s, x, warn, at)).depth = s.depth
<1>1. PICK e : e = NewEntry(s, x, warn, at)
    OBVIOUS
<1>2. s.depth \in Nat /\ s.active_len \in Nat
    BY DEF Good, Scope
<1>3. e \in Entry /\ e.name = x /\ e.depth = s.depth
    BY <1>1, <1>2 DEF NewEntry, Entry
<1>4. PICK t : t = Place(s, e)
    OBVIOUS
<1>5. /\ t.depth = s.depth /\ t.active_len = s.active_len + 1
      /\ t.entries[s.active_len + 1] = e
      /\ \A i \in 1..s.active_len : t.entries[i] = s.entries[i]
    BY <1>4, <1>3, PlaceTakesNext
<1>6. InUse(t) = InUse(s) \cup {s.active_len + 1} /\ InUse(s) = 1..s.active_len
    BY <1>2, <1>5 DEF InUse
<1>7. Slotted(t, y, d) <=> Slotted(s, y, d) \/ (y = x /\ s.depth <= d)
    BY <1>3, <1>5, <1>6 DEF Slotted
<1> QED
    BY <1>4, <1>1, <1>5, <1>7

LEMMA FoundSlots ==
    ASSUME NEW s, Good(s), NEW x, find_current(s, x) # 0, NEW d, s.depth <= d
    PROVE  Slotted(s, x, d)
<1>1. Here(s, x) # {}
    BY DEF find_current
<1>2. PICK i \in InUse(s) : s.entries[i].name = x /\ s.entries[i].depth = s.depth
    BY <1>1 DEF Here, InUse
<1> QED
    BY <1>2 DEF Slotted

(* semantic_scope_declare, and what stands for it for parameters.          *)
LEMMA DeclaredSlots ==
    ASSUME NEW s, Good(s), NEW x \in Names \ {Blank}, NEW at \in Positions, NEW y, NEW d
    PROVE  /\ Slotted(Declared(s, x, at), y, d) <=> Slotted(s, y, d) \/ (y = x /\ s.depth <= d)
           /\ Declared(s, x, at).depth = s.depth
<1>1. CASE find_current(s, x) = 0
  <2>1. /\ Slotted(Place(s, NewEntry(s, x, TRUE, at)), y, d) <=> Slotted(s, y, d) \/ (y = x /\ s.depth <= d)
        /\ Place(s, NewEntry(s, x, TRUE, at)).depth = s.depth
      BY PlaceSlots
  <2> QED
      BY <1>1, <2>1 DEF Declared
<1>2. CASE find_current(s, x) # 0
    BY <1>2, FoundSlots DEF Declared
<1> QED
    BY <1>1, <1>2

LEMMA ExistingSlots ==
    ASSUME NEW s, Good(s), NEW x \in Names, NEW y, NEW d
    PROVE  /\ Slotted(declare_existing(s, x), y, d) <=> Slotted(s, y, d) \/ (y = x /\ s.depth <= d)
           /\ declare_existing(s, x).depth = s.depth
<1>1. CASE find_current(s, x) = 0
  <2>1. /\ Slotted(Place(s, NewEntry(s, x, FALSE, NoPosition)), y, d)
               <=> Slotted(s, y, d) \/ (y = x /\ s.depth <= d)
        /\ Place(s, NewEntry(s, x, FALSE, NoPosition)).depth = s.depth
      BY PlaceSlots
  <2> QED
      BY <1>1, <2>1 DEF declare_existing
<1>2. CASE find_current(s, x) # 0
    BY <1>2, FoundSlots DEF declare_existing
<1> QED
    BY <1>1, <1>2

LEMMA SameSlotted ==
    ASSUME NEW s, Good(s), NEW t, SameSlots(s, t), NEW x, NEW d
    PROVE  (Slotted(t, x, d) <=> Slotted(s, x, d)) /\ t.depth = s.depth
<1>1. s.active_len \in Nat /\ Len(s.entries) \in Nat /\ s.active_len <= Len(s.entries)
    BY DEF Good, Scope
<1>2. InUse(t) = InUse(s) /\ InUse(s) \subseteq 1..Len(s.entries)
    BY <1>1 DEF SameSlots, InUse
<1> QED
    BY <1>2 DEF SameSlots, Slotted

-----------------------------------------------------------------------------
LEMMA OpenBound ==
    ASSUME NEW s, Good(s), NEW es \in Seq(Env), BoundIn(s, es), Len(es) > 0,
           NEW fs, fs = Opened(es)
    PROVE  BoundIn(scope_push(s), fs)
<1>1. Len(es) \in Nat /\ s.depth \in Nat /\ Len(es) = s.depth + 1
    BY DEF BoundIn, Good, Scope
<1>2. /\ Len(fs) = Len(es) + 1 /\ \A k \in 1..Len(es) : fs[k] = es[k]
      /\ fs[Len(es) + 1] = es[Len(es)]
    BY <1>1 DEF Opened, Inner
<1>3. scope_push(s).depth = s.depth + 1
    BY PushSlots
<1>4. ASSUME NEW k \in 1..Len(fs), NEW x \in Names \ {Blank}
      PROVE  type_env_has(fs[k], x) <=> Means(scope_push(s), x, k - 1)
  <2>1. CASE k \in 1..Len(es)
    <3>1. type_env_has(es[k], x) <=> Means(s, x, k - 1)
        BY <2>1 DEF BoundIn
    <3> QED
        BY <1>2, <2>1, <3>1, PushSlots DEF Means
  <2>2. CASE k = Len(es) + 1
    <3>1. Len(es) \in 1..Len(es)
        BY <1>1
    <3>2. type_env_has(es[Len(es)], x) <=> Means(s, x, s.depth)
        BY <1>1, <3>1 DEF BoundIn
    <3>3. k - 1 = s.depth + 1
        BY <1>1, <2>2
    <3> QED
        BY <1>2, <2>2, <3>2, <3>3, PushSlots DEF Means
  <2> QED
      BY <1>1, <1>2, <2>1, <2>2
<1> QED
    BY <1>1, <1>2, <1>3, <1>4 DEF BoundIn

LEMMA LeaveBound ==
    ASSUME NEW s, Good(s), s.depth > 0, NEW es \in Seq(Env), BoundIn(s, es),
           NEW fs, fs = Left(es)
    PROVE  BoundIn(scope_pop(s), fs)
<1>1. Len(es) \in Nat /\ s.depth \in Nat /\ Len(es) = s.depth + 1
    BY DEF BoundIn, Good, Scope
<1>2. Len(fs) = s.depth /\ \A k \in 1..Len(fs) : fs[k] = es[k]
    BY <1>1 DEF Left
<1>3. scope_pop(s).depth = s.depth - 1
    BY <1>1 DEF scope_pop, Good, Scope
<1>4. ASSUME NEW k \in 1..Len(fs), NEW x \in Names \ {Blank}
      PROVE  type_env_has(fs[k], x) <=> Means(scope_pop(s), x, k - 1)
  <2>1. k \in 1..Len(es) /\ k - 1 \in 0..s.depth - 1
      BY <1>1, <1>2
  <2>2. type_env_has(es[k], x) <=> Means(s, x, k - 1)
      BY <2>1 DEF BoundIn
  <2>3. Slotted(scope_pop(s), x, k - 1) <=> Slotted(s, x, k - 1)
      BY <2>1, PopSlots
  <2> QED
      BY <1>2, <2>2, <2>3 DEF Means
<1> QED
    BY <1>1, <1>2, <1>3, <1>4 DEF BoundIn

LEMMA DeclareBound ==
    ASSUME NEW s, Good(s), NEW es \in Seq(Env), BoundIn(s, es), Len(es) > 0,
           NEW x \in Names, NEW at \in Positions, NEW d \in Declarations,
           NEW fs, fs = Renewed(es, type_env_extend(Inner(es), x, d))
    PROVE  BoundIn(Declared(s, x, at), fs)
<1>1. Len(es) \in Nat /\ s.depth \in Nat /\ Len(es) = s.depth + 1 /\ Inner(es) \in Env
    BY DEF BoundIn, Good, Scope, Inner
<1>2. PICK e : e = type_env_extend(Inner(es), x, d)
    OBVIOUS
<1>3. e \in Env /\ \A y : type_env_has(e, y) <=> y = x \/ type_env_has(Inner(es), y)
    BY <1>1, <1>2, ExtendBinds
<1>4. /\ Len(fs) = Len(es) /\ fs[Len(es)] = e
      /\ \A k \in 1..Len(es) : k # Len(es) => fs[k] = es[k]
    BY <1>1, <1>2, <1>3, ExceptSeq DEF Renewed
<1>5. Declared(s, x, at).depth = s.depth
  <2>1. CASE x = Blank
      BY <2>1 DEF Declared
  <2>2. CASE x # Blank
      BY <2>2, DeclaredSlots
  <2> QED
      BY <2>1, <2>2
<1>6. ASSUME NEW k \in 1..Len(fs), NEW y \in Names \ {Blank}
      PROVE  type_env_has(fs[k], y) <=> Means(Declared(s, x, at), y, k - 1)
  <2>1. k \in 1..Len(es) /\ (type_env_has(es[k], y) <=> Means(s, y, k - 1))
      BY <1>4 DEF BoundIn
  <2>2. type_env_has(fs[k], y) <=> type_env_has(es[k], y) \/ (y = x /\ k = Len(es))
      BY <1>3, <1>4, <2>1 DEF Inner
  <2>3. k = Len(es) <=> s.depth <= k - 1
      BY <1>1, <2>1
  <2>4. Slotted(Declared(s, x, at), y, k - 1) <=> Slotted(s, y, k - 1) \/ (y = x /\ s.depth <= k - 1)
    <3>1. CASE x = Blank
        BY <3>1 DEF Declared
    <3>2. CASE x # Blank
        BY <3>2, DeclaredSlots
    <3> QED
        BY <3>1, <3>2
  <2> QED
      BY <2>1, <2>2, <2>3, <2>4 DEF Means
<1> QED
    BY <1>1, <1>4, <1>5, <1>6 DEF BoundIn

LEMMA SameBound ==
    ASSUME NEW s, Good(s), NEW t, SameSlots(s, t), NEW es, BoundIn(s, es)
    PROVE  BoundIn(t, es)
<1>1. t.depth = s.depth
    BY DEF SameSlots
<1> QED
    BY <1>1, SameSlotted DEF BoundIn, Means


-----------------------------------------------------------------------------
(* The inductive invariant.                                                *)
ResolutionInv ==
    /\ ScopeInv
    /\ Tables(envs, vars, header, clashing) /\ declared \in Nat
    /\ entering => BoundAtEntry(scope, envs, pending)
    /\ ~entering => header = <<>>
    /\ Walking => BoundIn(scope, envs)

LEMMA WalkingShape ==
    ASSUME ResolutionInv, Walking
    PROVE  /\ ~entering /\ header = <<>> /\ Good(scope) /\ scope.depth \in Nat /\ scope.depth > 0
           /\ envs \in Seq(Env) /\ BoundIn(scope, envs) /\ Len(envs) = scope.depth + 1
           /\ Tables(envs, vars, <<>>, clashing) /\ env = Inner(envs)
<1>1. scope.depth \in Nat /\ scope.depth > 0 /\ Good(scope)
    BY DEF ResolutionInv, ScopeInv, Good, Scope, Walking
<1>2. ~entering
    BY <1>1 DEF ResolutionInv, BoundAtEntry
<1> QED
    BY <1>1, <1>2 DEF ResolutionInv, BoundIn, Tables, Inner, env

LEMMA Starts == ResolutionInit => ResolutionInv
<1> SUFFICES ASSUME ResolutionInit PROVE ResolutionInv
    OBVIOUS
<1>1. ScopeInv /\ ~entering /\ ~Walking
    BY Initially DEF ResolutionInit, Init, Walking, scope_new
<1>2. Tables(<<>>, <<>>, <<>>, {})
  <2>1. <<>> \in Seq(Env) /\ <<>> \in Table /\ <<>> \in Seq(HeaderDecl) /\ Len(<<>>) = 0
      BY DEF Table
  <2>2. Nested(<<>>)
      BY DEF Nested
  <2>3. ASSUME NEW x \in Names PROVE Agreed(<<>>, <<>>, <<>>, x)
      BY DEF Agreed, ComesOnce, LoadedAlike, ValuelessIsBound, Valueless
  <2> QED
      BY <2>1, <2>2, <2>3 DEF Tables
<1> QED
    BY <1>1, <1>2 DEF ResolutionInit, ResolutionInv

LEMMA IsScopeStep == [ResolutionNext]_resolutionVars => [Next]_scopeVars
BY DEF ResolutionNext, resolutionVars, scopeVars, Next, ResolveFunction, EmitHeader, ResolveParam,
       ResolveBody, ResolveStatement, Statement, ResolveBlock, ResolveLeave, ResolveLet,
       ResolveForRange, ResolveArm, ResolveUse

LEMMA FunctionStep ==
    ASSUME ResolutionInv, ScopeInv', NEW p \in Params, ResolveFunction(p)
    PROVE  ResolutionInv'
<1>1. /\ scope' = scope_new /\ pending' = Globals \o p /\ entering' = TRUE
      /\ envs' = <<Environment(p)>> /\ vars' = <<>> /\ header' = Header(p) /\ declared' = 0
      /\ clashing' = Repeated(FunctionList \o Globals \o p)
    BY DEF ResolveFunction, EnterFunction
<1>2. Tables(envs', vars', header', clashing')
    BY <1>1, HeaderKeeps
<1>3. ~Walking'
    BY <1>1 DEF Walking, scope_new
<1>4. BoundAtEntry(scope', envs', pending')
  <2>1. PICK names, h, e : /\ names = FunctionList \o Globals \o p /\ h = Header(p) /\ e = Environment(p)
                           /\ Matches(names, h, e)
      BY HeaderMatches
  <2>2. e \in Env /\ DOMAIN e = DOMAIN names /\ \A k \in DOMAIN e : e[k].name = names[k]
      BY <2>1 DEF Matches
  <2>3. scope'.depth = 0 /\ InUse(scope') = {} /\ Len(envs') = 1 /\ envs'[1] = e
      BY <1>1, <2>1 DEF scope_new, InUse
  <2>4. ASSUME NEW x \in Names
        PROVE  (\E k \in DOMAIN names : names[k] = x)
                   <=> x \in Functions \/ \E i \in DOMAIN (Globals \o p) : (Globals \o p)[i] = x
    <3>1. FunctionList \in Seq(Functions) /\ \A f \in Functions : \E i \in DOMAIN FunctionList : FunctionList[i] = f
        BY FunctionAssumption
    <3>2. FunctionList \in Seq(Names) /\ Globals \in Seq(Names) /\ p \in Seq(Names)
        BY FunctionAssumption, NamesAssumption
    <3>3. PICK q : q = Globals \o p
        OBVIOUS
    <3>4. /\ q \in Seq(Names) /\ Len(q) = Len(Globals) + Len(p)
          /\ \A i \in 1..Len(Globals) : q[i] = Globals[i]
          /\ \A i \in 1..Len(p) : q[Len(Globals) + i] = p[i]
        BY <3>2, <3>3, ConcatProperties
    <3>5. /\ Len(names) = Len(FunctionList) + Len(Globals) + Len(p) /\ names \in Seq(Names)
          /\ \A i \in 1..Len(FunctionList) : names[i] = FunctionList[i]
          /\ \A i \in 1..Len(Globals) : names[Len(FunctionList) + i] = Globals[i]
          /\ \A i \in 1..Len(p) : names[Len(FunctionList) + Len(Globals) + i] = p[i]
        BY <2>1, <3>2, Joined
    <3>6. /\ Len(FunctionList) \in Nat /\ Len(Globals) \in Nat /\ Len(p) \in Nat
          /\ DOMAIN FunctionList = 1..Len(FunctionList)
          /\ DOMAIN q = 1..Len(Globals) + Len(p)
          /\ DOMAIN names = 1..Len(FunctionList) + Len(Globals) + Len(p)
        BY <3>2, <3>4, <3>5
    <3>7. \A i \in 1..Len(q) : names[Len(FunctionList) + i] = q[i]
      <4> SUFFICES ASSUME NEW i \in 1..Len(q) PROVE names[Len(FunctionList) + i] = q[i]
          OBVIOUS
      <4>1. CASE i \in 1..Len(Globals)
          BY <3>4, <3>5, <4>1
      <4>2. CASE i \notin 1..Len(Globals)
        <5>1. i - Len(Globals) \in 1..Len(p) /\ i = Len(Globals) + (i - Len(Globals))
            BY <3>4, <3>6, <4>2
        <5>2. PICK j \in 1..Len(p) : i = Len(Globals) + j
            BY <5>1
        <5> QED
            BY <3>4, <3>5, <3>6, <5>2
      <4> QED
          BY <4>1, <4>2
    <3>8. \A k \in DOMAIN names : names[k] = x => x \in Functions \/ \E i \in DOMAIN q : q[i] = x
      <4> SUFFICES ASSUME NEW k \in DOMAIN names, names[k] = x, x \notin Functions
                   PROVE  \E i \in DOMAIN q : q[i] = x
          OBVIOUS
      <4>1. k \notin 1..Len(FunctionList)
          BY <3>1, <3>5
      <4>2. k - Len(FunctionList) \in DOMAIN q /\ k = Len(FunctionList) + (k - Len(FunctionList))
          BY <3>6, <4>1
      <4> QED
          BY <3>4, <3>6, <3>7, <4>2
    <3>9. ASSUME NEW i \in DOMAIN q, q[i] = x PROVE \E k \in DOMAIN names : names[k] = x
      <4>1. Len(FunctionList) + i \in DOMAIN names /\ i \in 1..Len(q)
          BY <3>4, <3>6
      <4> QED
          BY <3>7, <3>9, <4>1
    <3>10. ASSUME x \in Functions PROVE \E k \in DOMAIN names : names[k] = x
      <4>1. PICK i \in 1..Len(FunctionList) : FunctionList[i] = x
          BY <3>1, <3>6, <3>10
      <4>2. i \in DOMAIN names
          BY <3>6, <4>1
      <4> QED
          BY <3>5, <4>1, <4>2
    <3> QED
        BY <3>3, <3>8, <3>9, <3>10
  <2>5. \A x \in Names \ {Blank} :
            type_env_has(envs'[1], x) <=> Means(scope', x, 0) \/ \E i \in DOMAIN pending' : pending'[i] = x
      BY <1>1, <2>2, <2>3, <2>4, HasMeans DEF Means, Slotted
  <2> QED
      BY <2>3, <2>5 DEF BoundAtEntry
<1> QED
    BY <1>1, <1>2, <1>3, <1>4 DEF ResolutionInv

LEMMA EmitStep ==
    ASSUME ResolutionInv, ScopeInv', EmitHeader
    PROVE  ResolutionInv'
<1>1. /\ header # <<>> /\ vars' = Enter(vars, Head(header)) /\ header' = Tail(header)
      /\ UNCHANGED <<scope, entering, pending, envs, declared, clashing>>
    BY DEF EmitHeader
<1>2. entering /\ BoundAtEntry(scope, envs, pending) /\ Tables(envs, vars, header, clashing)
    BY <1>1 DEF ResolutionInv
<1>3. Len(envs) = 1 /\ ~Walking
    BY <1>2 DEF BoundAtEntry, Walking
<1>4. Tables(envs, vars', header', clashing)
    BY <1>1, <1>2, <1>3, EmitKeeps
<1> QED
    BY <1>1, <1>2, <1>3, <1>4 DEF ResolutionInv, Walking

LEMMA ParamStep ==
    ASSUME ResolutionInv, ScopeInv', ResolveParam
    PROVE  ResolutionInv'
<1>1. /\ entering /\ pending # <<>> /\ scope' = declare_existing(scope, Head(pending))
      /\ pending' = Tail(pending) /\ entering' = entering
      /\ UNCHANGED <<envs, vars, header, declared, clashing>>
    BY DEF ResolveParam, DeclareParam
<1>2. Good(scope) /\ pending \in Seq(Names) /\ BoundAtEntry(scope, envs, pending)
    BY <1>1 DEF ResolutionInv, ScopeInv
<1>3. PICK x \in Names : x = Head(pending)
    BY <1>1, <1>2
<1>4. /\ scope'.depth = scope.depth /\ scope.depth = 0 /\ Len(envs) = 1
      /\ \A y : Slotted(scope', y, 0) <=> Slotted(scope, y, 0) \/ y = x
    BY <1>1, <1>2, <1>3, ExistingSlots DEF BoundAtEntry
<1>5. \A y : (\E i \in DOMAIN pending : pending[i] = y)
                 <=> y = x \/ \E i \in DOMAIN pending' : pending'[i] = y
  <2>1. /\ Len(pending) \in Nat \ {0} /\ pending[1] = x /\ DOMAIN pending = 1..Len(pending)
        /\ DOMAIN pending' = 1..Len(pending) - 1
        /\ \A i \in 1..Len(pending) - 1 : pending'[i] = pending[i + 1]
      BY <1>1, <1>2, <1>3
  <2>2. \A i \in DOMAIN pending : i = 1 \/ (i - 1 \in DOMAIN pending' /\ pending'[i - 1] = pending[i])
      BY <2>1
  <2>3. 1 \in DOMAIN pending /\ \A i \in DOMAIN pending' : i + 1 \in DOMAIN pending /\ pending'[i] = pending[i + 1]
      BY <2>1
  <2> QED
      BY <2>1, <2>2, <2>3
<1>6. BoundAtEntry(scope', envs, pending')
    BY <1>2, <1>4, <1>5 DEF BoundAtEntry, Means
<1>7. ~Walking'
    BY <1>4 DEF Walking
<1> QED
    BY <1>1, <1>6, <1>7 DEF ResolutionInv

LEMMA BodyStep ==
    ASSUME ResolutionInv, ScopeInv', ResolveBody
    PROVE  ResolutionInv'
<1>1. /\ entering /\ pending = <<>> /\ header = <<>> /\ scope' = scope_push(scope) /\ entering' = FALSE
      /\ envs' = Opened(envs) /\ UNCHANGED <<vars, header, declared, clashing>>
    BY DEF ResolveBody, EnterBody, Opened, Inner, env
<1>2. /\ Good(scope) /\ BoundAtEntry(scope, envs, pending) /\ Tables(envs, vars, header, clashing)
      /\ Len(envs) = 1 /\ Len(envs) > 0 /\ envs \in Seq(Env)
  <2>1. Good(scope) /\ BoundAtEntry(scope, envs, pending) /\ Tables(envs, vars, header, clashing)
      BY <1>1 DEF ResolutionInv, ScopeInv
  <2>2. Len(envs) = 1 /\ envs \in Seq(Env)
      BY <2>1 DEF BoundAtEntry, Tables
  <2> QED
      BY <2>1, <2>2
<1>3. Tables(envs', vars, header, clashing)
    BY <1>1, <1>2, CloneKeeps
<1>4. BoundIn(scope, envs)
  <2>1. \A i \in DOMAIN pending : FALSE
      BY <1>1
  <2>2. scope.depth = 0 /\ \A k \in 1..Len(envs) : k = 1 /\ k - 1 = 0
      BY <1>2 DEF BoundAtEntry
  <2> QED
      BY <1>2, <2>1, <2>2 DEF BoundIn, BoundAtEntry
<1>5. BoundIn(scope', envs')
    BY <1>1, <1>2, <1>4, OpenBound
<1> QED
    BY <1>1, <1>3, <1>5 DEF ResolutionInv


(* A statement that leaves the tables in agreement.                        *)
LEMMA Settled ==
    ASSUME ResolutionInv, ScopeInv', Walking, UNCHANGED <<entering, pending, header>>,
           Tables(envs', vars', <<>>, clashing'), declared' \in Nat, Walking' => BoundIn(scope', envs')
    PROVE  ResolutionInv'
<1>1. ~entering /\ header = <<>>
    BY WalkingShape
<1>2. ~entering' /\ header' = <<>>
    BY <1>1
<1> QED
    BY <1>2 DEF ResolutionInv

LEMMA BlockStep ==
    ASSUME ResolutionInv, ScopeInv', ResolveBlock, UNCHANGED <<entering, pending, header>>
    PROVE  ResolutionInv'
<1>1. /\ Walking /\ scope' = scope_push(scope) /\ envs' = Opened(envs)
      /\ UNCHANGED <<vars, declared, clashing>>
    BY DEF ResolveBlock, OpenBlock, CanOpen, Opened, Inner, env
<1>2. /\ Good(scope) /\ envs \in Seq(Env) /\ BoundIn(scope, envs) /\ Len(envs) > 0
      /\ Tables(envs, vars, <<>>, clashing)
    BY <1>1, WalkingShape
<1>3. Tables(envs', vars, <<>>, clashing)
    BY <1>1, <1>2, CloneKeeps
<1>4. BoundIn(scope', envs')
    BY <1>1, <1>2, OpenBound
<1>5. declared \in Nat
    BY DEF ResolutionInv
<1> QED
    BY <1>1, <1>3, <1>4, <1>5, Settled

LEMMA LeaveStep ==
    ASSUME ResolutionInv, ScopeInv', ResolveLeave, UNCHANGED <<entering, pending, header>>
    PROVE  ResolutionInv'
<1>1. /\ Walking /\ scope' = scope_pop(scope) /\ envs' = Left(envs)
      /\ UNCHANGED <<vars, declared, clashing>>
    BY DEF ResolveLeave, LeaveScope, Left
<1>2. /\ Good(scope) /\ envs \in Seq(Env) /\ BoundIn(scope, envs) /\ Len(envs) > 1 /\ scope.depth > 0
      /\ Tables(envs, vars, <<>>, clashing)
    BY <1>1, WalkingShape
<1>3. Tables(envs', vars, <<>>, clashing)
    BY <1>1, <1>2, DropKeeps
<1>4. BoundIn(scope', envs')
    BY <1>1, <1>2, LeaveBound
<1>5. declared \in Nat
    BY DEF ResolutionInv
<1> QED
    BY <1>1, <1>3, <1>4, <1>5, Settled

(* What the three statements that declare a variable have in common: s and *)
(* es are the scope and the environments it is declared in.                *)
LEMMA LocalStep ==
    ASSUME ResolutionInv, ScopeInv', Walking, UNCHANGED <<entering, pending, header>>,
           NEW x \in Names, NEW at \in Positions, NEW s, NEW es,
           Good(s), es \in Seq(Env), Len(es) > 0, BoundIn(s, es), Tables(es, vars, <<>>, clashing),
           Inner(es) = env,
           scope' = Declared(s, x, at) \/ scope' = mark_mutable(Declared(s, x, at), x),
           envs' = Renewed(es, type_env_extend(env, x, Local(declared + 1))),
           DeclareLocal(env, x)
    PROVE  ResolutionInv'
<1>1. declared \in Nat
    BY DEF ResolutionInv
<1>2. /\ vars' = llvm_define_var(vars, x, Local(declared + 1)) /\ declared' = declared + 1
      /\ clashing' = IF type_env_has(Inner(es), x) THEN clashing \cup {x} ELSE clashing
    BY DEF DeclareLocal
<1>3. PICK n \in Nat : n = declared + 1
    BY <1>1
<1>4. Local(n) \in Declarations
    BY DEF Local, Declarations
<1>5. envs' = Renewed(es, type_env_extend(Inner(es), x, Local(n)))
    BY <1>3
<1>6. Tables(envs', vars', <<>>, clashing')
    BY <1>2, <1>3, <1>5, DeclareKeeps
<1>7. PICK t : t = Declared(s, x, at)
    OBVIOUS
<1>8. Good(t) /\ BoundIn(t, envs')
    BY <1>4, <1>5, <1>7, DeclaredGood, DeclareBound
<1>9. SameSlots(t, mark_mutable(t, x))
  <2>1. SameSlots(t, [t EXCEPT !.entries[find_current(t, x)].mutable = TRUE])
      BY <1>8, MarkSame
  <2>2. SameSlots(t, t)
      BY <1>8 DEF SameSlots, Good
  <2> QED
      BY <2>1, <2>2 DEF mark_mutable
<1>10. BoundIn(scope', envs')
    BY <1>7, <1>8, <1>9, SameBound
<1>11. declared' \in Nat
    BY <1>2, <1>3
<1> QED
    BY <1>6, <1>10, <1>11, Settled

LEMMA LetStep ==
    ASSUME ResolutionInv, ScopeInv', NEW x \in Names, NEW at \in Positions, NEW mutable \in BOOLEAN,
           ResolveLet(x, mutable, at), UNCHANGED <<entering, pending, header>>
    PROVE  ResolutionInv'
<1>1. /\ Walking /\ DeclareLocal(env, x)
      /\ scope' = Declared(scope, x, at) \/ scope' = mark_mutable(Declared(scope, x, at), x)
      /\ envs' = Renewed(envs, type_env_extend(env, x, Local(declared + 1)))
    BY DEF ResolveLet, Let, Innermost, Renewed
<1>2. /\ Good(scope) /\ envs \in Seq(Env) /\ BoundIn(scope, envs) /\ Len(envs) > 0
      /\ Tables(envs, vars, <<>>, clashing) /\ Inner(envs) = env
    BY <1>1, WalkingShape
<1> QED
    BY <1>1, <1>2, LocalStep

LEMMA BranchStep ==
    ASSUME ResolutionInv, ScopeInv', NEW x \in Names, NEW at \in Positions,
           ResolveForRange(x, at) \/ ResolveArm(x, at), UNCHANGED <<entering, pending, header>>
    PROVE  ResolutionInv'
<1>1. /\ Walking /\ DeclareLocal(env, x)
      /\ scope' = Declared(scope_push(scope), x, at)
      /\ envs' = Append(envs, type_env_extend(env, x, Local(declared + 1)))
    BY DEF ResolveForRange, ResolveArm, ForRange, MatchArm, CanOpen
<1>2. /\ Good(scope) /\ envs \in Seq(Env) /\ BoundIn(scope, envs) /\ Len(envs) > 0
      /\ Tables(envs, vars, <<>>, clashing) /\ Inner(envs) = env
    BY <1>1, WalkingShape
<1>3. PICK s, es : s = scope_push(scope) /\ es = Opened(envs)
    OBVIOUS
<1>4. Tables(es, vars, <<>>, clashing) /\ Len(es) = Len(envs) + 1 /\ Inner(es) = env
    BY <1>2, <1>3, CloneKeeps
<1>5. Good(s) /\ BoundIn(s, es)
    BY <1>2, <1>3, PushGood, OpenBound
<1>6. es \in Seq(Env) /\ Len(es) > 0
    BY <1>2, <1>4 DEF Tables
<1>7. envs' = Renewed(es, type_env_extend(env, x, Local(declared + 1)))
  <2>1. PICK e : e = type_env_extend(env, x, Local(declared + 1))
      OBVIOUS
  <2>2. Append(envs, e) = [Append(envs, Inner(envs)) EXCEPT ![Len(envs) + 1] = e]
    <3>1. declared + 1 \in Nat
        BY DEF ResolutionInv
    <3>2. env \in Env /\ Local(declared + 1) \in Declarations
        BY <1>2, <3>1 DEF Inner, Local, Declarations
    <3>3. e \in Env
        BY <2>1, <3>2, ExtendBinds
    <3>4. PICK a, b : a = Append(envs, Inner(envs)) /\ b = Append(envs, e)
        OBVIOUS
    <3>5. /\ a \in Seq(Env) /\ b \in Seq(Env) /\ Len(envs) + 1 \in 1..Len(a)
          /\ Len(a) = Len(b) /\ b[Len(envs) + 1] = e
          /\ \A k \in 1..Len(b) : k # Len(envs) + 1 => b[k] = a[k]
        BY <1>2, <3>2, <3>3, <3>4
    <3>6. PICK c : c = [a EXCEPT ![Len(envs) + 1] = e]
        OBVIOUS
    <3>7. /\ c \in Seq(Env) /\ Len(c) = Len(a) /\ c[Len(envs) + 1] = e
          /\ \A k \in 1..Len(a) : k # Len(envs) + 1 => c[k] = a[k]
        BY <3>3, <3>5, <3>6, ExceptSeq
    <3>8. c = b
        BY <3>5, <3>7, SeqEqual
    <3> QED
        BY <3>4, <3>6, <3>8
  <2> QED
      BY <1>1, <1>3, <1>4, <2>1, <2>2 DEF Renewed, Opened
<1>8. scope' = Declared(s, x, at)
    BY <1>1, <1>3
<1> QED
    BY <1>1, <1>4, <1>5, <1>6, <1>7, <1>8, LocalStep

LEMMA UseStep ==
    ASSUME ResolutionInv, ScopeInv', NEW x \in Names, NEW at \in Positions,
           ResolveUse(x, at), UNCHANGED <<entering, pending, header>>
    PROVE  ResolutionInv'
<1>1. /\ Walking /\ (scope' = scope \/ scope' = mark_used(scope, x))
      /\ UNCHANGED <<envs, vars, declared, clashing>>
    BY DEF ResolveUse, Ident, Addr, Call, Capture, Assign
<1>2. Good(scope) /\ BoundIn(scope, envs) /\ Tables(envs, vars, <<>>, clashing)
    BY <1>1, WalkingShape
<1>3. SameSlots(scope, mark_used(scope, x))
  <2>1. SameSlots(scope, [scope EXCEPT !.entries[lookup(scope, x)].used = TRUE])
      BY <1>2, MarkSame
  <2>2. SameSlots(scope, scope)
      BY <1>2 DEF SameSlots, Good
  <2> QED
      BY <2>1, <2>2 DEF mark_used
<1>4. BoundIn(scope', envs')
    BY <1>1, <1>2, <1>3, SameBound
<1>5. declared' \in Nat
    BY <1>1 DEF ResolutionInv
<1> QED
    BY <1>1, <1>2, <1>4, <1>5, Settled

LEMMA ResolutionStep == ResolutionInv /\ [ResolutionNext]_resolutionVars => ResolutionInv'
<1> SUFFICES ASSUME ResolutionInv, [ResolutionNext]_resolutionVars PROVE ResolutionInv'
    OBVIOUS
<1>1. ScopeInv'
    BY IsScopeStep, NextKeeps DEF ResolutionInv
<1>2. CASE \E p \in Params : ResolveFunction(p)
    BY <1>1, <1>2, FunctionStep
<1>3. CASE EmitHeader
    BY <1>1, <1>3, EmitStep
<1>4. CASE ResolveParam
    BY <1>1, <1>4, ParamStep
<1>5. CASE ResolveBody
    BY <1>1, <1>5, BodyStep
<1>6. CASE ResolveStatement
  <2>1. UNCHANGED <<entering, pending, header>>
      BY <1>6 DEF ResolveStatement
  <2>2. CASE ResolveBlock
      BY <1>1, <2>1, <2>2, BlockStep
  <2>3. CASE ResolveLeave
      BY <1>1, <2>1, <2>3, LeaveStep
  <2>4. ASSUME NEW x \in Names, NEW at \in Positions, NEW mutable \in BOOLEAN, ResolveLet(x, mutable, at)
        PROVE  ResolutionInv'
      BY <1>1, <2>1, <2>4, LetStep
  <2>5. ASSUME NEW x \in Names, NEW at \in Positions, ResolveForRange(x, at) \/ ResolveArm(x, at)
        PROVE  ResolutionInv'
      BY <1>1, <2>1, <2>5, BranchStep
  <2>6. ASSUME NEW x \in Names, NEW at \in Positions, ResolveUse(x, at)
        PROVE  ResolutionInv'
      BY <1>1, <2>1, <2>6, UseStep
  <2> QED
      BY <1>6, <2>2, <2>3, <2>4, <2>5, <2>6 DEF ResolveStatement
<1>7. CASE UNCHANGED resolutionVars
    BY <1>1, <1>7 DEF resolutionVars, ResolutionInv, Walking
<1> QED
    BY <1>2, <1>3, <1>4, <1>5, <1>6, <1>7 DEF ResolutionNext

THEOREM ResolutionInvariant == ResolutionSpec => []ResolutionInv
BY Starts, ResolutionStep, PTL DEF ResolutionSpec

(* Where no declaration repeats a name that means something, the variable  *)
(* that is loaded for a use is the one that gave the use its type: for     *)
(* every program and nesting of its blocks, as long as the table has room  *)
(* (src/src/helper.c, vix_set_var; src/src/infer/solver.vix).              *)
THEOREM UsesLoadWhatWasTyped == ResolutionSpec => []LoadsWhatWasTyped
<1>1. ResolutionInv => LoadsWhatWasTyped
  <2> SUFFICES ASSUME ResolutionInv, Walking, Len(vars) < MaxVars,
                      NEW x \in Names \ clashing, type_env_has(env, x)
               PROVE  LoadsItsType(x)
      BY DEF LoadsWhatWasTyped
  <2>1. /\ Tables(envs, vars, <<>>, clashing) /\ env = Inner(envs)
        /\ scope.depth \in Nat /\ Len(envs) = scope.depth + 1
      BY WalkingShape
  <2>2. LoadedAlike(envs, vars, <<>>, x)
      BY <2>1 DEF Tables, Agreed
  <2>3. ~Coming(<<>>, x)
      BY DEF Coming
  <2>4. Len(envs) \in 1..Len(envs) /\ env = envs[Len(envs)]
      BY <2>1 DEF Inner
  <2>5. Loads(vars, x, type_env_lookup(env, x))
      BY <2>2, <2>3, <2>4 DEF LoadedAlike
  <2> QED
      BY <2>5 DEF Loads, LoadsItsType
<1> QED
    BY ResolutionInvariant, <1>1, PTL

(* The semantic pass accepts a name just where type inference has a type   *)
(* for it: for every program and nesting of its blocks (src/src/           *)
(* semantic.vix, semantic_scope_contains; src/src/infer/env.vix).          *)
THEOREM NamesBoundAlike == ResolutionSpec => []BoundAlike
<1>1. ResolutionInv => BoundAlike
  <2> SUFFICES ASSUME ResolutionInv, Walking, NEW x \in Names \ {Blank}
               PROVE  contains(scope, x) \/ x \in Functions <=> type_env_has(env, x)
      BY DEF BoundAlike
  <2>1. /\ Good(scope) /\ BoundIn(scope, envs) /\ env = envs[Len(envs)]
        /\ scope.depth \in Nat /\ Len(envs) = scope.depth + 1
      BY WalkingShape DEF Inner
  <2>2. Len(envs) \in 1..Len(envs) /\ Len(envs) - 1 = scope.depth
      BY <2>1
  <2>3. type_env_has(env, x) <=> Means(scope, x, scope.depth)
      BY <2>1, <2>2 DEF BoundIn
  <2> QED
      BY <2>1, <2>3, ContainsMeans DEF Means
<1> QED
    BY ResolutionInvariant, <1>1, PTL
=============================================================================
