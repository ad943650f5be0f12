---------------------------- MODULE SupportProofs ----------------------------
(***************************************************************************)
(* The small parts around the passes, for any sizes of their tables and    *)
(* buffers: the runtime that is linked is the compiler's own, calls and    *)
(* fields have the types that were declared, the linker's command line     *)
(* stays in its buffer and a line ends in one semicolon or none.           *)
(*                                                                         *)
(* What the tables hold after a number of declarations is characterised    *)
(* first (FunctionsInv and StructsInv: what is pending is the rest of the  *)
(* plan, and the rows are those of the names that were entered), then      *)
(* compared with the types.  Of the lexer, the invariant says what follows *)
(* the last token (LexInv): whether the line it is on has ended, and what  *)
(* the next character of code will be.                                     *)
(***************************************************************************)
EXTENDS LinkArgs, CompilerPaths, SigTables, LexerLines,
        SequenceTheorems, FiniteSetTheorems, WellFoundedInduction, TLAPS

(* The search for the runtime.                                             *)
PathInv ==
    /\ path \in SearchPaths /\ bin \in Installed /\ readable \in Libraries /\ argv0 \in Argv0
    /\ OwnRuntime

LEMMA InOwnDir ==
    ASSUME PathInv, NEW dir \in Dirs, Runs(dir)
    PROVE  CompilerDir = dir
<1>1. path \in Seq(Dirs) /\ bin \in [Dirs -> Dirs \cup {Nothing}]
      /\ \A d \in Dirs : bin[d] # Nothing => bin[bin[d]] = bin[d]
    BY PathsAssumption, InstalledAssumption DEF PathInv
<1>2. PICK d \in Dirs : Started(d) /\ bin[d] = dir
    BY DEF Runs
<1>3. bin[d] # Nothing /\ DirOf(d) = dir
    BY <1>2, HereAssumption DEF DirOf
<1>4. CASE argv0.kind = "path"
    BY <1>2, <1>3, <1>4 DEF Started, CompilerDir
<1>5. CASE argv0.kind = "bare"
  <2>1. PICK i \in DOMAIN path : path[i] = d /\ \A k \in 1..i - 1 : bin[path[k]] = Nothing
      BY <1>2, <1>5 DEF Started
  <2> DEFINE hits == {k \in DOMAIN path : bin[path[k]] # Nothing}
  <2>2. i \in hits /\ \A k \in hits : i <= k
    <3>1. DOMAIN path = 1..Len(path) /\ Len(path) \in Nat
        BY <1>1
    <3> QED
        BY <1>3, <2>1, <3>1
  <2>3. \A j \in hits : (\A k \in hits : j <= k) => j = i
    <3>1. hits \subseteq Nat
        BY <1>1
    <3> HIDE DEF hits
    <3> QED
        BY <2>2, <3>1
  <2>4. (CHOOSE j \in hits : \A k \in hits : j <= k) = i
    <3> HIDE DEF hits
    <3> QED
        BY <2>2, <2>3
  <2>5. CompilerDir = DirOf(path[CHOOSE j \in hits : \A k \in hits : j <= k])
      BY <1>5, <2>2 DEF CompilerDir
  <2> QED
      BY <1>3, <2>1, <2>4, <2>5
<1> QED
    BY <1>2, <1>4, <1>5 DEF Started

(* Wherever the compiler was started from and through whatever link, the   *)
(* runtime object it links is its own, and one that is there if it has any *)
(* (src/src/helper.c, vix_compiler_runtime_object_path).                   *)
THEOREM RuntimeIsOwn == PathSpec => []OwnRuntime
<1>1. PathInit => PathInv
    BY DEF PathInit, PathInv, OwnRuntime
<1>2. PathInv /\ [PathNext]_pathVars => PathInv'
  <2> SUFFICES ASSUME PathInv, [PathNext]_pathVars PROVE PathInv'
      OBVIOUS
  <2>1. CASE UNCHANGED pathVars
      BY <2>1 DEF pathVars, PathInv, OwnRuntime, Runs, Started
  <2>2. CASE Locate
    <3>1. UNCHANGED <<argv0, path, bin, readable>> /\ found' = vix_compiler_runtime_object_path
        BY <2>2 DEF Locate
    <3>2. ASSUME NEW dir \in Dirs, Runs(dir)
          PROVE  found'.dir = dir /\ (found' \in readable \/ \A o \in readable : o.dir # dir)
      <4>1. \A place : Beside(place) = [dir |-> dir, place |-> place]
          BY <3>2, InOwnDir DEF Beside
      <4>2. readable \subseteq Object
          BY LibrariesAssumption DEF PathInv
      <4>3. ASSUME NEW o \in readable, o.dir = dir
            PROVE  o \in {Beside("runtime.o"), Beside("runtime/runtime.o"), Beside("../runtime/runtime.o")}
          BY <4>1, <4>2, <4>3 DEF Object, Places
      <4>4. found' \in {Beside("runtime.o"), Beside("runtime/runtime.o"), Beside("../runtime/runtime.o")}
          BY <3>1 DEF vix_compiler_runtime_object_path
      <4>5. found' \in readable
            \/ readable \cap {Beside("runtime.o"), Beside("runtime/runtime.o"), Beside("../runtime/runtime.o")} = {}
          BY <3>1 DEF vix_compiler_runtime_object_path
      <4> QED
          BY <4>1, <4>3, <4>4, <4>5
    <3> QED
        BY <3>1, <3>2 DEF PathInv, OwnRuntime, Runs, Started
  <2> QED
      BY <2>1, <2>2 DEF PathNext
<1> QED
    BY <1>1, <1>2, PTL DEF PathSpec, PathInv

-----------------------------------------------------------------------------
(* The tables of signatures.  What is pending is what is left of the plan. *)
Step == [step : {"declare", "struct"}, entry : Struct] \cup [step : {"extern", "function"}, entry : Function]
Total == Len(Plan)
Done == Total - Len(pending)
Follows ==
    /\ program \in Programs
    /\ pending \in Seq(Step) /\ Len(pending) <= Total
    /\ \A i \in 1..Len(pending) : pending[i] = Plan[Done + i]

LEMMA EntriesAre ==
    ASSUME NEW step, NEW S, NEW seq \in Seq(S)
    PROVE  /\ Entries(step, seq) \in Seq([step : {step}, entry : S])
           /\ Len(Entries(step, seq)) = Len(seq)
           /\ \A i \in 1..Len(seq) : Entries(step, seq)[i] = [step |-> step, entry |-> seq[i]]
<1>1. Len(seq) \in Nat /\ DOMAIN seq = 1..Len(seq) /\ \A i \in 1..Len(seq) : seq[i] \in S
    BY LenProperties
<1>2. Entries(step, seq) = [i \in 1..Len(seq) |-> [step |-> step, entry |-> seq[i]]]
    BY <1>1 DEF Entries
<1> QED
    BY <1>1, <1>2

(* Declarations first, then the structures, the externs and the functions. *)
Shape ==
    LET s == Len(program.structs)  e == Len(program.externs)  f == Len(program.functions)
    IN  /\ s \in Nat /\ e \in Nat /\ f \in Nat
        /\ Plan \in Seq(Step) /\ Total = s + s + e + f
        /\ \A i \in 1..Total :
              Plan[i] = IF i <= s THEN [step |-> "declare", entry |-> program.structs[i]]
                        ELSE IF i <= s + s THEN [step |-> "struct", entry |-> program.structs[i - s]]
                        ELSE IF i <= s + s + e THEN [step |-> "extern", entry |-> program.externs[i - s - s]]
                        ELSE [step |-> "function", entry |-> program.functions[i - s - s - e]]

LEMMA PlanShape ==
    ASSUME program \in Programs
    PROVE  Shape
<1>1. /\ program.structs \in Seq(Struct)
      /\ program.externs \in Seq(Function)
      /\ program.functions \in Seq(Function)
    BY ProgramsAssumption DEF Program
<1>2. PICK a : a = Entries("declare", program.structs)
    OBVIOUS
<1>3. PICK b : b = Entries("struct", program.structs)
    OBVIOUS
<1>4. PICK c : c = Entries("extern", program.externs)
    OBVIOUS
<1>5. PICK d : d = Entries("function", program.functions)
    OBVIOUS
<1>6. /\ a \in Seq(Step) /\ Len(a) = Len(program.structs)
      /\ \A i \in 1..Len(a) : a[i] = [step |-> "declare", entry |-> program.structs[i]]
  <2>1. a \in Seq([step : {"declare"}, entry : Struct])
      BY <1>1, <1>2, EntriesAre
  <2>2. [step : {"declare"}, entry : Struct] \subseteq Step
      BY DEF Step
  <2> QED
      <3>1. a \in Seq(Step)
          BY <2>1, <2>2, SeqMonotonic
      <3>2. Len(a) = Len(program.structs)
          BY <1>1, <1>2, EntriesAre
      <3>3. \A i \in 1..Len(program.structs) : a[i] = [step |-> "declare", entry |-> program.structs[i]]
          BY <1>1, <1>2, EntriesAre
      <3> QED
          BY <3>1, <3>2, <3>3
<1>7. /\ b \in Seq(Step) /\ Len(b) = Len(program.structs)
      /\ \A i \in 1..Len(b) : b[i] = [step |-> "struct", entry |-> program.structs[i]]
  <2>1. b \in Seq([step : {"struct"}, entry : Struct])
      BY <1>1, <1>3, EntriesAre
  <2>2. [step : {"struct"}, entry : Struct] \subseteq Step
      BY DEF Step
  <2> QED
      <3>1. b \in Seq(Step)
          BY <2>1, <2>2, SeqMonotonic
      <3>2. Len(b) = Len(program.structs)
          BY <1>1, <1>3, EntriesAre
      <3>3. \A i \in 1..Len(program.structs) : b[i] = [step |-> "struct", entry |-> program.structs[i]]
          BY <1>1, <1>3, EntriesAre
      <3> QED
          BY <3>1, <3>2, <3>3
<1>8. /\ c \in Seq(Step) /\ Len(c) = Len(program.externs)
      /\ \A i \in 1..Len(c) : c[i] = [step |-> "extern", entry |-> program.externs[i]]
  <2>1. c \in Seq([step : {"extern"}, entry : Function])
      BY <1>1, <1>4, EntriesAre
  <2>2. [step : {"extern"}, entry : Function] \subseteq Step
      BY DEF Step
  <2> QED
      <3>1. c \in Seq(Step)
          BY <2>1, <2>2, SeqMonotonic
      <3>2. Len(c) = Len(program.externs)
          BY <1>1, <1>4, EntriesAre
      <3>3. \A i \in 1..Len(program.externs) : c[i] = [step |-> "extern", entry |-> program.externs[i]]
          BY <1>1, <1>4, EntriesAre
      <3> QED
          BY <3>1, <3>2, <3>3
<1>9. /\ d \in Seq(Step) /\ Len(d) = Len(program.functions)
      /\ \A i \in 1..Len(d) : d[i] = [step |-> "function", entry |-> program.functions[i]]
  <2>1. d \in Seq([step : {"function"}, entry : Function])
      BY <1>1, <1>5, EntriesAre
  <2>2. [step : {"function"}, entry : Function] \subseteq Step
      BY DEF Step
  <2> QED
      <3>1. d \in Seq(Step)
          BY <2>1, <2>2, SeqMonotonic
      <3>2. Len(d) = Len(program.functions)
          BY <1>1, <1>5, EntriesAre
      <3>3. \A i \in 1..Len(program.functions) : d[i] = [step |-> "function", entry |-> program.functions[i]]
          BY <1>1, <1>5, EntriesAre
      <3> QED
          BY <3>1, <3>2, <3>3
<1>10. Plan = ((a \o b) \o c) \o d
    BY <1>2, <1>3, <1>4, <1>5 DEF Plan, codegen_program_target
<1>11. PICK ab : ab = a \o b
    OBVIOUS
<1>12. PICK abc : abc = ab \o c
    OBVIOUS
<1>13. /\ ab \in Seq(Step) /\ Len(ab) = Len(a) + Len(b)
       /\ \A i \in 1..Len(a) + Len(b) : ab[i] = IF i <= Len(a) THEN a[i] ELSE b[i - Len(a)]
  <2>1. a \in Seq(Step) /\ b \in Seq(Step)
      BY <1>6, <1>7
  <2> QED
      BY <1>11, <2>1, ConcatProperties
<1>14. /\ abc \in Seq(Step) /\ Len(abc) = Len(ab) + Len(c)
       /\ \A i \in 1..Len(ab) + Len(c) : abc[i] = IF i <= Len(ab) THEN ab[i] ELSE c[i - Len(ab)]
  <2>1. ab \in Seq(Step) /\ c \in Seq(Step)
      BY <1>8, <1>13
  <2> QED
      BY <1>12, <2>1, ConcatProperties
<1>15. /\ Plan \in Seq(Step) /\ Len(Plan) = Len(abc) + Len(d)
       /\ \A i \in 1..Len(abc) + Len(d) : Plan[i] = IF i <= Len(abc) THEN abc[i] ELSE d[i - Len(abc)]
  <2>1. abc \in Seq(Step) /\ d \in Seq(Step)
      BY <1>9, <1>14
  <2>2. Plan = abc \o d
      BY <1>10, <1>11, <1>12
  <2> QED
      BY <2>1, <2>2, ConcatProperties
<1>16. Len(a) \in Nat /\ Len(c) \in Nat /\ Len(d) \in Nat
    BY <1>6, <1>8, <1>9, LenProperties
<1> QED
  <2>1. ASSUME NEW i \in 1..Len(Plan)
        PROVE  Plan[i] = IF i <= Len(a) THEN a[i] ELSE IF i <= Len(a) + Len(b) THEN b[i - Len(a)]
                         ELSE IF i <= Len(a) + Len(b) + Len(c) THEN c[i - Len(a) - Len(b)]
                         ELSE d[i - Len(a) - Len(b) - Len(c)]
    <3>1. Len(b) \in Nat /\ Len(ab) = Len(a) + Len(b) /\ Len(abc) = Len(ab) + Len(c)
          /\ Len(Plan) = Len(abc) + Len(d)
        BY <1>6, <1>7, <1>13, <1>14, <1>15, <1>16
    <3>2. CASE i <= Len(abc)
      <4>1. Plan[i] = abc[i]
          BY <1>15, <3>1, <3>2
      <4>2. abc[i] = IF i <= Len(ab) THEN ab[i] ELSE c[i - Len(ab)]
          BY <1>14, <1>16, <3>1, <3>2
      <4>3. i <= Len(ab) => ab[i] = IF i <= Len(a) THEN a[i] ELSE b[i - Len(a)]
          BY <1>13, <1>16, <3>1
      <4> QED
          BY <1>16, <3>1, <3>2, <4>1, <4>2, <4>3
    <3>3. CASE ~(i <= Len(abc))
      <4>1. Plan[i] = d[i - Len(abc)]
          BY <1>15, <3>1, <3>3
      <4> QED
          BY <1>16, <3>1, <3>3, <4>1
    <3> QED
        BY <3>2, <3>3
  <2>2. Total = Len(a) + Len(b) + Len(c) + Len(d)
      BY <1>13, <1>14, <1>15 DEF Total
  <2>3. ASSUME NEW i \in 1..Total
        PROVE  LET s == Len(program.structs)  e == Len(program.externs) IN
               Plan[i] = IF i <= s THEN [step |-> "declare", entry |-> program.structs[i]]
                         ELSE IF i <= s + s THEN [step |-> "struct", entry |-> program.structs[i - s]]
                         ELSE IF i <= s + s + e THEN [step |-> "extern", entry |-> program.externs[i - s - s]]
                         ELSE [step |-> "function", entry |-> program.functions[i - s - s - e]]
    <3>1. CASE i <= Len(a)
        BY <1>6, <2>1, <2>2, <3>1 DEF Total
    <3>2. CASE ~(i <= Len(a)) /\ i <= Len(a) + Len(b)
        BY <1>6, <1>7, <1>16, <2>1, <2>2, <3>2 DEF Total
    <3>3. CASE ~(i <= Len(a) + Len(b)) /\ i <= Len(a) + Len(b) + Len(c)
      <4>1. i \in Int /\ Len(b) \in Nat /\ Plan[i] = c[i - Len(a) - Len(b)]
          BY <1>6, <1>7, <1>16, <2>1, <3>3 DEF Total
      <4>2. i - Len(a) - Len(b) \in 1..Len(c)
          BY <1>16, <3>3, <4>1
      <4> QED
          BY <1>6, <1>7, <1>8, <1>16, <3>3, <4>1, <4>2
    <3>4. CASE ~(i <= Len(a) + Len(b) + Len(c))
      <4>1. i \in Int /\ Len(b) \in Nat /\ Plan[i] = d[i - Len(a) - Len(b) - Len(c)]
          BY <1>6, <1>7, <1>16, <2>1, <3>4 DEF Total
      <4>2. i - Len(a) - Len(b) - Len(c) \in 1..Len(d)
          BY <1>16, <2>2, <3>4, <4>1
      <4>3. d[i - Len(a) - Len(b) - Len(c)] =
                [step |-> "function", entry |-> program.functions[i - Len(a) - Len(b) - Len(c)]]
          BY <1>9, <4>2
      <4> QED
        <5>1. ~(i <= Len(a)) /\ ~(i <= Len(a) + Len(b)) /\ ~(i <= Len(a) + Len(b) + Len(c))
            BY <1>16, <3>4, <4>1
        <5> QED
            BY <1>6, <1>7, <1>8, <4>1, <4>3, <5>1
    <3> QED
        BY <1>6, <1>7, <1>8, <1>16, <3>1, <3>2, <3>3, <3>4
  <2> QED
      BY <1>6, <1>7, <1>8, <1>9, <1>15, <1>16, <2>2, <2>3 DEF Shape

LEMMA FollowsNext ==
    ASSUME Follows, NEW step, Entering(step)
    PROVE  /\ Follows' /\ Plan' = Plan /\ Done' = Done + 1
           /\ Done + 1 \in 1..Total /\ Done \in Nat
           /\ Plan[Done + 1] = pending[1] /\ pending[1].step = step /\ Entry = Plan[Done + 1].entry
<1>1. Plan \in Seq(Step) /\ Total \in Nat
    BY PlanShape, LenProperties DEF Follows, Shape, Total
<1>2. program' = program /\ pending # <<>> /\ pending' = Tail(pending) /\ pending[1].step = step
    BY DEF Entering
<1>3. Plan' = Plan /\ Total' = Total
    BY <1>2 DEF Plan, Total
<1>4. /\ pending' \in Seq(Step) /\ Len(pending') = Len(pending) - 1 /\ Len(pending) \in Nat \ {0}
      /\ \A i \in 1..Len(pending') : pending'[i] = pending[i + 1]
    BY <1>2, HeadTailProperties, EmptySeq DEF Follows
<1> QED
    BY <1>1, <1>2, <1>3, <1>4 DEF Follows, Done, Entry

LEMMA LeastIndex ==
    ASSUME NEW S \in SUBSET Nat, S # {}
    PROVE  \E m \in S : \A n \in S : m <= n
<1>1. PICK m \in S : \A n \in S : <<n, m>> \notin OpToRel(<, Nat)
    BY NatLessThanWellFounded, WFMin
<1>2. \A n \in S : ~(n < m)
    BY <1>1 DEF OpToRel
<1> QED
    BY <1>2

LEMMA GreatestIndex ==
    ASSUME NEW n \in Nat, NEW S \in SUBSET (0..n), S # {}
    PROVE  \E m \in S : \A k \in S : k <= m
<1> DEFINE T == {n - x : x \in S}
<1>1. T \in SUBSET Nat /\ T # {}
  <2>1. \A x \in S : n - x \in Nat
      OBVIOUS
  <2>2. PICK x \in S : TRUE
      OBVIOUS
  <2> QED
      BY <2>1, <2>2
<1> HIDE DEF T
<1>2. PICK m \in T : \A y \in T : m <= y
    BY <1>1, LeastIndex
<1>3. PICK x \in S : m = n - x
    BY <1>2 DEF T
<1>4. \A y \in S : y <= x
    BY <1>2, <1>3 DEF T
<1> QED
    BY <1>3, <1>4

HasRow(table, n) == \E i \in DOMAIN table : table[i].name = n

LEMMA FirstRowIs ==
    ASSUME NEW S, NEW table \in Seq(S), NEW n
    PROVE  IF HasRow(table, n) THEN FirstRow(table, n) \in 1..Len(table) /\ table[FirstRow(table, n)].name = n
           ELSE FirstRow(table, n) = 0
<1> DEFINE rows == {i \in DOMAIN table : table[i].name = n}
<1>1. DOMAIN table = 1..Len(table) /\ Len(table) \in Nat
    BY LenProperties
<1>2. CASE HasRow(table, n)
  <2>1. rows \in SUBSET Nat /\ rows # {}
      BY <1>1, <1>2 DEF HasRow
  <2>2. \E m \in rows : \A k \in rows : m <= k
    <3> HIDE DEF rows
    <3> QED
        BY <2>1, LeastIndex
  <2>3. FirstRow(table, n) = CHOOSE i \in rows : \A k \in rows : i <= k
      BY <2>1 DEF FirstRow
  <2>4. FirstRow(table, n) \in rows
    <3> HIDE DEF rows
    <3> QED
        BY <2>2, <2>3
  <2> QED
      BY <1>1, <1>2, <2>4
<1>3. CASE ~HasRow(table, n)
    BY <1>3 DEF HasRow, FirstRow
<1> QED
    BY <1>2, <1>3

LEMMA LastRowIs ==
    ASSUME NEW S, NEW table \in Seq(S), NEW n
    PROVE  IF HasRow(table, n) THEN LastRow(table, n) \in 1..Len(table) /\ table[LastRow(table, n)].name = n
           ELSE LastRow(table, n) = 0
<1> DEFINE rows == {i \in DOMAIN table : table[i].name = n}
<1>1. DOMAIN table = 1..Len(table) /\ Len(table) \in Nat
    BY LenProperties
<1>2. CASE HasRow(table, n)
  <2>1. rows \in SUBSET (0..Len(table)) /\ rows # {}
      BY <1>1, <1>2 DEF HasRow
  <2>2. \E m \in rows : \A k \in rows : k <= m
    <3> HIDE DEF rows
    <3> QED
        BY <1>1, <2>1, GreatestIndex
  <2>3. LastRow(table, n) = CHOOSE i \in rows : \A k \in rows : k <= i
      BY <2>1 DEF LastRow
  <2>4. LastRow(table, n) \in rows
    <3> HIDE DEF rows
    <3> QED
        BY <2>2, <2>3
  <2> QED
      BY <1>1, <1>2, <2>4
<1>3. CASE ~HasRow(table, n)
    BY <1>3 DEF HasRow, LastRow
<1> QED
    BY <1>2, <1>3

-----------------------------------------------------------------------------
(* Entering one name after another.  D is the names entered, R those there *)
(* was no row for.                                                         *)
Row == [name : Name, return_type : Name, param_types : Seq(Name), is_var_arg : BOOLEAN]
OneRowEach(table) ==
    \A n \in FunctionNames : \A i, j \in DOMAIN table : table[i].name = n /\ table[j].name = n => i = j
TableOk(table, R, D) ==
    /\ table \in Seq(Row) /\ \A i \in DOMAIN table : Short(table[i].name)
    /\ D \subseteq FunctionNames
    /\ R # {} => Len(table) >= MaxEntries
    /\ \A n \in R : ~HasRow(table, n)
    /\ \A n \in D : n \in R \/ ~Short(n) \/ HasRow(table, n)
    /\ \A i \in DOMAIN table : \E c \in Callees : table[i] = FunctionRow(c[1], c[2])
    /\ FunctionsFit => OneRowEach(table)
Roomy(table, R, D) ==
    /\ Len(table) <= Cardinality(D)
    /\ R # {} => Cardinality(FunctionNames) > MaxEntries
WithLost(table, R, n) == IF NoRoom(table, n) THEN R \cup {n} ELSE R

LEMMA CalleesAre ==
    ASSUME program \in Programs
    PROVE  Callees \subseteq Name \X Function /\ FunctionNames \subseteq Name
<1>1. /\ program.externs \in Seq(Function)
      /\ program.functions \in Seq(Function)
    BY ProgramsAssumption DEF Program
<1>2. /\ \A k \in DOMAIN program.externs : program.externs[k] \in Function
      /\ \A k \in DOMAIN program.functions : program.functions[k] \in Function
    BY <1>1
<1>3. Callees \subseteq Name \X Function
    BY <1>2 DEF Callees, Function
<1> QED
    BY <1>3 DEF FunctionNames

LEMMA ImageFinite ==
    ASSUME NEW n \in Nat, NEW f, f = [k \in 1..n |-> f[k]]
    PROVE  IsFiniteSet({f[k] : k \in 1..n})
<1> DEFINE T == {f[k] : k \in 1..n}
<1>1. f \in Surjection(1..n, T)
    BY DEF Surjection
<1>2. IsFiniteSet(1..n)
    BY FS_Interval
<1> QED
    BY <1>1, <1>2, FS_Surjection

LEMMA NamesFinite ==
    ASSUME program \in Programs
    PROVE  IsFiniteSet(FunctionNames)
<1>1. /\ DOMAIN program.externs = 1..Len(program.externs) /\ Len(program.externs) \in Nat
      /\ DOMAIN program.functions = 1..Len(program.functions) /\ Len(program.functions) \in Nat
    BY ProgramsAssumption, LenProperties DEF Program
<1> DEFINE E == {program.externs[k].name : k \in 1..Len(program.externs)}
           N == {program.functions[k].name : k \in 1..Len(program.functions)}
           M == {program.functions[k].emitted : k \in 1..Len(program.functions)}
<1>2. IsFiniteSet(E)
  <2> DEFINE f == [k \in 1..Len(program.externs) |-> program.externs[k].name]
  <2>1. IsFiniteSet({f[k] : k \in 1..Len(program.externs)})
    <3>1. f = [k \in 1..Len(program.externs) |-> f[k]]
        OBVIOUS
    <3> HIDE DEF f
    <3> QED
        BY <1>1, <3>1, ImageFinite
  <2>2. E = {f[k] : k \in 1..Len(program.externs)}
      OBVIOUS
  <2> QED
      BY <2>1, <2>2
<1>3. IsFiniteSet(N)
  <2> DEFINE f == [k \in 1..Len(program.functions) |-> program.functions[k].name]
  <2>1. IsFiniteSet({f[k] : k \in 1..Len(program.functions)})
    <3>1. f = [k \in 1..Len(program.functions) |-> f[k]]
        OBVIOUS
    <3> HIDE DEF f
    <3> QED
        BY <1>1, <3>1, ImageFinite
  <2>2. N = {f[k] : k \in 1..Len(program.functions)}
      OBVIOUS
  <2> QED
      BY <2>1, <2>2
<1>4. IsFiniteSet(M)
  <2> DEFINE f == [k \in 1..Len(program.functions) |-> program.functions[k].emitted]
  <2>1. IsFiniteSet({f[k] : k \in 1..Len(program.functions)})
    <3>1. f = [k \in 1..Len(program.functions) |-> f[k]]
        OBVIOUS
    <3> HIDE DEF f
    <3> QED
        BY <1>1, <3>1, ImageFinite
  <2>2. M = {f[k] : k \in 1..Len(program.functions)}
      OBVIOUS
  <2> QED
      BY <2>1, <2>2
<1>5. FunctionNames = (E \cup N) \cup M
  <2>1. ASSUME NEW c \in Callees PROVE c[1] \in (E \cup N) \cup M
      BY <1>1 DEF Callees
  <2>2. ASSUME NEW n \in (E \cup N) \cup M PROVE \E c \in Callees : c[1] = n
      <3>1. CASE n \in E
        <4>1. PICK k \in DOMAIN program.externs : n = program.externs[k].name
            BY <1>1, <3>1
        <4>2. <<n, program.externs[k]>> \in Callees
            BY <4>1 DEF Callees
        <4> QED
            BY <4>2
      <3>2. CASE n \in N
        <4>1. PICK k \in DOMAIN program.functions : n = program.functions[k].name
            BY <1>1, <3>2
        <4>2. <<n, program.functions[k]>> \in Callees
            BY <4>1 DEF Callees
        <4> QED
            BY <4>2
      <3>3. CASE n \in M
        <4>1. PICK k \in DOMAIN program.functions : n = program.functions[k].emitted
            BY <1>1, <3>3
        <4>2. <<n, program.functions[k]>> \in Callees
            BY <4>1 DEF Callees
        <4> QED
            BY <4>2
      <3> QED
          BY <2>2, <3>1, <3>2, <3>3
  <2> HIDE DEF E, N, M
  <2> QED
      BY <2>1, <2>2 DEF FunctionNames
<1> QED
  <2> HIDE DEF E, N, M
  <2>1. IsFiniteSet(E \cup N)
      BY <1>2, <1>3, FS_Union
  <2> QED
      BY <1>4, <1>5, <2>1, FS_Union

LEMMA CutIs ==
    ASSUME NEW n \in Name
    PROVE  Cut(n) \in Name /\ Short(Cut(n)) /\ (Short(n) => Cut(n) = n)
<1>1. n = [head |-> n.head, rest |-> n.rest] /\ n.head \in Heads
    BY DEF Name
<1>2. PICK h : h = n.head
    OBVIOUS
<1>3. PICK r : r = n.rest
    OBVIOUS
<1>4. Cut(n) = [[head |-> h, rest |-> r] EXCEPT !.rest = NoRest]
    BY <1>1, <1>2, <1>3 DEF Cut
<1>5. Cut(n) = [head |-> h, rest |-> NoRest]
    BY <1>4
<1>6. Cut(n) \in Name
    BY <1>1, <1>2, <1>5 DEF Name
<1>7. Short(n) => Cut(n) = n
    BY <1>1, <1>2, <1>5 DEF Short
<1> QED
    BY <1>5, <1>6, <1>7 DEF Short

LEMMA AtMostIs ==
    ASSUME NEW S, NEW seq \in Seq(S), NEW n \in Nat
    PROVE  /\ AtMost(n, seq) \in Seq(S)
           /\ Len(AtMost(n, seq)) = IF Len(seq) < n THEN Len(seq) ELSE n
           /\ \A i \in 1..Len(AtMost(n, seq)) : i \in 1..Len(seq) /\ AtMost(n, seq)[i] = seq[i]
<1>1. Len(seq) \in Nat /\ \A i \in 1..Len(seq) : seq[i] \in S
    BY LenProperties
<1> DEFINE m == IF Len(seq) < n THEN Len(seq) ELSE n
<1>2. m \in Nat /\ m <= Len(seq)
    BY <1>1
<1>3. AtMost(n, seq) = SubSeq(seq, 1, m)
    BY DEF AtMost
<1> HIDE DEF m
<1>4. /\ SubSeq(seq, 1, m) \in Seq(S)
      /\ Len(SubSeq(seq, 1, m)) = IF 1 <= m THEN m - 1 + 1 ELSE 0
      /\ \A i \in 1..m - 1 + 1 : SubSeq(seq, 1, m)[i] = seq[1 + i - 1]
  <2>1. \A i \in 1..m : seq[i] \in S
      BY <1>1, <1>2
  <2>2. 1 \in Int /\ m \in Int
      BY <1>2
  <2> QED
      BY <2>1, <2>2, SubSeqProperties
<1>5. Len(AtMost(n, seq)) = m
    BY <1>2, <1>3, <1>4
<1>6. \A i \in 1..m : i \in 1..Len(seq) /\ AtMost(n, seq)[i] = seq[i]
    BY <1>1, <1>2, <1>3, <1>4
<1> QED
    BY <1>3, <1>4, <1>5, <1>6 DEF m

LEMMA CutAllIs ==
    ASSUME NEW seq \in Seq(Name)
    PROVE  /\ CutAll(seq) \in Seq(Name) /\ Len(CutAll(seq)) = Len(seq)
           /\ \A i \in 1..Len(seq) : CutAll(seq)[i] = Cut(seq[i])
<1>1. Len(seq) \in Nat /\ DOMAIN seq = 1..Len(seq) /\ \A i \in 1..Len(seq) : seq[i] \in Name
    BY LenProperties
<1>2. CutAll(seq) = [i \in 1..Len(seq) |-> Cut(seq[i])]
    BY <1>1 DEF CutAll
<1>3. \A i \in 1..Len(seq) : Cut(seq[i]) \in Name
    BY <1>1, CutIs
<1> QED
    BY <1>1, <1>2, <1>3

LEMMA RowIs ==
    ASSUME NEW n \in Name, NEW f \in Function
    PROVE  FunctionRow(n, f) \in Row /\ FunctionRow(n, f).name = Cut(n)
<1>1. f.ret \in Name /\ f.params \in Seq(Name) /\ f.is_var_arg \in BOOLEAN
    BY DEF Function
<1>2. CutAll(AtMost(MaxParams, f.params)) \in Seq(Name)
    BY <1>1, AtMostIs, CutAllIs, LimitsAssumption
<1>3. Cut(n) \in Name /\ Cut(f.ret) \in Name
    BY <1>1, CutIs
<1> QED
    BY <1>1, <1>2, <1>3 DEF FunctionRow, Row

(* A name is entered: it finds its row, or takes the next, or there is     *)
(* none.                                                                   *)
LEMMA WithFunctionIs ==
    ASSUME NEW table \in Seq(Row), NEW n, NEW f
    PROVE  /\ HasRow(table, n) =>
                 /\ ~NoRoom(table, n)
                 /\ FirstRow(table, n) \in 1..Len(table) /\ table[FirstRow(table, n)].name = n
                 /\ WithFunction(table, n, f) = [table EXCEPT ![FirstRow(table, n)] = FunctionRow(n, f)]
           /\ ~HasRow(table, n) =>
                 IF Len(table) >= MaxEntries THEN NoRoom(table, n) /\ WithFunction(table, n, f) = table
                 ELSE ~NoRoom(table, n) /\ WithFunction(table, n, f) = Append(table, FunctionRow(n, f))
<1>1. IF HasRow(table, n) THEN FirstRow(table, n) \in 1..Len(table) /\ table[FirstRow(table, n)].name = n
      ELSE FirstRow(table, n) = 0
    BY FirstRowIs
<1> QED
    BY <1>1 DEF NoRoom, WithFunction

LEMMA EnterOne ==
    ASSUME program \in Programs, NEW table, NEW R, NEW D, TableOk(table, R, D), NEW c \in Callees
    PROVE  /\ TableOk(WithFunction(table, c[1], c[2]), WithLost(table, R, c[1]), D \cup {c[1]})
           /\ Roomy(table, R, D) /\ (Short(c[1]) \/ c[1] \notin D) =>
                Roomy(WithFunction(table, c[1], c[2]), WithLost(table, R, c[1]), D \cup {c[1]})
<1>1. PICK n, f : n = c[1] /\ f = c[2]
    OBVIOUS
<1>2. n \in Name /\ f \in Function /\ n \in FunctionNames /\ c = <<n, f>>
    BY <1>1, CalleesAre DEF FunctionNames
<1>3. PICK row : row = FunctionRow(n, f)
    OBVIOUS
<1>4. row \in Row /\ row.name = Cut(n) /\ Short(row.name) /\ (Short(n) => Cut(n) = n)
    BY <1>2, <1>3, RowIs, CutIs
<1>5. row = FunctionRow(c[1], c[2])
    BY <1>1, <1>3
<1>6. PICK new : new = WithFunction(table, n, f)
    OBVIOUS
<1>7. PICK L : L = WithLost(table, R, n)
    OBVIOUS
<1>8. /\ table \in Seq(Row) /\ \A i \in DOMAIN table : Short(table[i].name)
      /\ Len(table) \in Nat /\ DOMAIN table = 1..Len(table) /\ MaxEntries \in Nat
    BY LenProperties, LimitsAssumption DEF TableOk
<1>9. \A k : HasRow(table, k) => Short(k)
    BY <1>8 DEF HasRow
<1>10. IsFiniteSet(D) /\ Cardinality(D) \in Nat
       /\ IsFiniteSet(D \cup {n})
       /\ Cardinality(D \cup {n}) = IF n \in D THEN Cardinality(D) ELSE Cardinality(D) + 1
  <2>1. IsFiniteSet(FunctionNames) /\ D \subseteq FunctionNames
      BY NamesFinite DEF TableOk
  <2>2. IsFiniteSet(D)
      BY <2>1, FS_Subset
  <2> QED
      BY <2>2, FS_AddElement, FS_CardinalityType
<1>11. /\ TableOk(new, L, D \cup {n})
       /\ Roomy(table, R, D) /\ (Short(n) \/ n \notin D) => Roomy(new, L, D \cup {n})
  <2>1. CASE HasRow(table, n)
    <3>1. PICK r \in 1..Len(table) : table[r].name = n /\ new = [table EXCEPT ![r] = row]
        BY <1>3, <1>6, <1>8, <2>1, WithFunctionIs
    <3>2. Short(n) /\ row.name = n
        BY <1>4, <1>9, <2>1
    <3>3. L = R
        BY <1>7, <1>8, <2>1, WithFunctionIs DEF WithLost
    <3>4. /\ new \in Seq(Row) /\ Len(new) = Len(table) /\ DOMAIN new = 1..Len(table)
          /\ \A i \in 1..Len(table) : new[i] = IF i = r THEN row ELSE table[i]
        BY <1>4, <1>8, <3>1, LenProperties
    <3>5. \A i \in 1..Len(table) : new[i].name = table[i].name
        BY <3>1, <3>2, <3>4
    <3>6. \A k : HasRow(new, k) <=> HasRow(table, k)
        BY <1>8, <3>4, <3>5 DEF HasRow
    <3>7. \A i \in DOMAIN new : \E e \in Callees : new[i] = FunctionRow(e[1], e[2])
        BY <1>5, <1>8, <3>4 DEF TableOk
    <3>8. OneRowEach(table) => OneRowEach(new)
        BY <1>8, <3>4, <3>5 DEF OneRowEach
    <3>9. D \cup {n} \subseteq FunctionNames
        BY <1>2 DEF TableOk
    <3>10. TableOk(new, L, D \cup {n})
      <4>1. \A i \in DOMAIN new : Short(new[i].name)
          BY <1>8, <3>4, <3>5
      <4>2. /\ L # {} => Len(new) >= MaxEntries
            /\ \A k \in L : ~HasRow(new, k)
            /\ \A k \in D \cup {n} : k \in L \/ ~Short(k) \/ HasRow(new, k)
            /\ FunctionsFit => OneRowEach(new)
          BY <2>1, <3>3, <3>4, <3>6, <3>8 DEF TableOk
      <4> QED
          BY <3>4, <3>7, <3>9, <4>1, <4>2 DEF TableOk
    <3>11. Roomy(table, R, D) => Roomy(new, L, D \cup {n})
        BY <1>8, <1>10, <3>3, <3>4 DEF Roomy
    <3> QED
        BY <3>10, <3>11
  <2>2. CASE ~HasRow(table, n) /\ Len(table) >= MaxEntries
    <3>1. new = table /\ L = R \cup {n}
        BY <1>6, <1>7, <1>8, <2>2, WithFunctionIs DEF WithLost
    <3>2. TableOk(new, L, D \cup {n})
        BY <1>2, <2>2, <3>1 DEF TableOk
    <3>3. ASSUME Roomy(table, R, D), Short(n) \/ n \notin D
          PROVE  Roomy(new, L, D \cup {n})
      <4>1. Len(new) <= Cardinality(D \cup {n})
          BY <1>8, <1>10, <3>1, <3>3 DEF Roomy
      <4>2. R = {} => n \notin D
          BY <2>2, <3>3 DEF TableOk
      <4>3. R = {} => Cardinality(D \cup {n}) > MaxEntries
          BY <1>8, <1>10, <2>2, <3>3, <4>2 DEF Roomy
      <4>4. Cardinality(D \cup {n}) <= Cardinality(FunctionNames) /\ Cardinality(FunctionNames) \in Nat
        <5>1. D \cup {n} \in SUBSET FunctionNames
            BY <1>2 DEF TableOk
        <5> QED
            BY <5>1, NamesFinite, FS_Subset, FS_CardinalityType
      <4>5. Cardinality(FunctionNames) > MaxEntries
          BY <1>8, <1>10, <3>3, <4>3, <4>4 DEF Roomy
      <4> QED
          BY <4>1, <4>5 DEF Roomy
    <3> QED
        BY <3>2, <3>3
  <2>3. CASE ~HasRow(table, n) /\ ~(Len(table) >= MaxEntries)
    <3>1. new = Append(table, row) /\ L = R /\ R = {}
        BY <1>3, <1>6, <1>7, <1>8, <2>3, WithFunctionIs DEF WithLost, TableOk
    <3>2. /\ new \in Seq(Row) /\ Len(new) = Len(table) + 1 /\ DOMAIN new = 1..Len(table) + 1
          /\ \A i \in 1..Len(table) : new[i] = table[i]
          /\ new[Len(table) + 1] = row
        BY <1>4, <1>8, <3>1, AppendProperties, LenProperties
    <3>3. \A k : HasRow(new, k) <=> HasRow(table, k) \/ k = row.name
        BY <1>8, <3>2 DEF HasRow
    <3>4. \A i \in DOMAIN new : \E e \in Callees : new[i] = FunctionRow(e[1], e[2])
        BY <1>5, <1>8, <3>2 DEF TableOk
    <3>5. ASSUME FunctionsFit
          PROVE  OneRowEach(new)
      <4>1. OneRowEach(table)
          BY <3>5 DEF TableOk
      <4>2. row.name \in FunctionNames => row.name = n
        <5>1. ASSUME row.name \in FunctionNames
              PROVE  row.name = n
          <6>1. PICK e \in Callees : e[1] = row.name
              BY <5>1 DEF FunctionNames
          <6>2. Cut(e[1]) = row.name
              BY <1>4, <6>1, CalleesAre, CutIs
          <6>3. Cut(c[1]) = row.name
              BY <1>1, <1>4
          <6> QED
              BY <1>1, <3>5, <6>1, <6>2, <6>3 DEF FunctionsFit
        <5> QED
            BY <5>1
      <4>3. \A i \in DOMAIN table : table[i].name = row.name => row.name \notin FunctionNames
          BY <2>3, <4>2 DEF HasRow
      <4>4. ASSUME NEW k \in FunctionNames, NEW i \in DOMAIN new, NEW j \in DOMAIN new,
                   new[i].name = k, new[j].name = k
            PROVE  i = j
        <5>1. CASE i \in 1..Len(table) /\ j \in 1..Len(table)
            BY <1>8, <3>2, <4>1, <4>4, <5>1 DEF OneRowEach
        <5>2. CASE i = Len(table) + 1 /\ j = Len(table) + 1
            BY <5>2
        <5>3. CASE i \in 1..Len(table) /\ j = Len(table) + 1
            BY <1>8, <3>2, <4>3, <4>4, <5>3
        <5>4. CASE i = Len(table) + 1 /\ j \in 1..Len(table)
            BY <1>8, <3>2, <4>3, <4>4, <5>4
        <5> QED
            BY <1>8, <3>2, <5>1, <5>2, <5>3, <5>4
      <4> QED
          BY <4>4 DEF OneRowEach
    <3>6. TableOk(new, L, D \cup {n})
      <4>1. \A i \in DOMAIN new : Short(new[i].name)
          BY <1>4, <1>8, <3>2
      <4>2. D \cup {n} \subseteq FunctionNames
          BY <1>2 DEF TableOk
      <4>3. \A k \in D \cup {n} : k \in L \/ ~Short(k) \/ HasRow(new, k)
          BY <1>4, <3>1, <3>3 DEF TableOk
      <4> QED
          BY <3>1, <3>2, <3>4, <3>5, <4>1, <4>2, <4>3 DEF TableOk
    <3>7. ASSUME Roomy(table, R, D), Short(n) \/ n \notin D
          PROVE  Roomy(new, L, D \cup {n})
      <4>1. n \notin D
          BY <2>3, <3>1, <3>7 DEF TableOk
      <4> QED
          BY <1>8, <1>10, <3>1, <3>2, <3>7, <4>1 DEF Roomy
    <3> QED
        BY <3>6, <3>7
  <2> QED
      BY <2>1, <2>2, <2>3
<1> QED
    BY <1>1, <1>6, <1>7, <1>11

(* What the table holds after so much of the plan.                         *)
RefusedFunctions == {n \in Name : Refused("function", n) \in refused}
Entered == UNION {EnteredBy(Plan[i]) : i \in 1..Done}
FunctionsInv ==
    /\ Follows
    /\ \A r \in refused : r.name \in Name /\ r = Refused(r.kind, r.name)
    /\ TableOk(funcs, RefusedFunctions, Entered)
    /\ LongOnce => Roomy(funcs, RefusedFunctions, Entered)

LEMMA SameProgram ==
    ASSUME program' = program, NEW t, NEW R, NEW D
    PROVE  /\ TableOk(t, R, D)' <=> TableOk(t, R, D)
           /\ Roomy(t, R, D)' <=> Roomy(t, R, D)
           /\ LongOnce' <=> LongOnce
           /\ Plan' = Plan /\ Callees' = Callees /\ FunctionNames' = FunctionNames
<1>1. Callees' = Callees
    BY DEF Callees
<1>2. FunctionNames' = FunctionNames
    BY <1>1 DEF FunctionNames
<1>3. Plan' = Plan
    BY DEF Plan
<1>4. FunctionsFit' <=> FunctionsFit
    BY <1>1 DEF FunctionsFit
<1>5. OneRowEach(t)' <=> OneRowEach(t)
    BY <1>2 DEF OneRowEach
<1>6. LongOnce' <=> LongOnce
    BY <1>3 DEF LongOnce
<1>7. Roomy(t, R, D)' <=> Roomy(t, R, D)
    BY <1>2 DEF Roomy
<1>8. TableOk(t, R, D)' <=> TableOk(t, R, D)
    BY <1>1, <1>2, <1>4, <1>5 DEF TableOk
<1> QED
    BY <1>1, <1>2, <1>3, <1>6, <1>7, <1>8

LEMMA EnteredNext ==
    ASSUME Follows, NEW step, Entering(step)
    PROVE  /\ Entered' = Entered \cup EnteredBy(Plan[Done + 1])
           /\ LongOnce => \A n \in EnteredBy(Plan[Done + 1]) : Short(n) \/ n \notin Entered
<1>1. /\ Plan' = Plan /\ Done' = Done + 1 /\ Done + 1 \in 1..Total /\ Done \in Nat
    BY FollowsNext
<1>2. 1..Done' = (1..Done) \cup {Done + 1}
    BY <1>1
<1>3. Entered' = UNION {EnteredBy(Plan[i]) : i \in 1..Done'}
    BY <1>1 DEF Entered
<1>4. Entered' = Entered \cup EnteredBy(Plan[Done + 1])
    BY <1>2, <1>3 DEF Entered
<1>5. DOMAIN Plan = 1..Total /\ Total \in Nat
    BY PlanShape, LenProperties DEF Follows, Shape, Total
<1>6. ASSUME LongOnce, NEW n \in EnteredBy(Plan[Done + 1]), n \in Entered
      PROVE  Short(n)
  <2>1. PICK i \in 1..Done : n \in EnteredBy(Plan[i])
      BY <1>6 DEF Entered
  <2>2. i \in DOMAIN Plan /\ Done + 1 \in DOMAIN Plan /\ i # Done + 1
      BY <1>1, <1>5, <2>1
  <2> QED
      BY <1>6, <2>1, <2>2 DEF LongOnce
<1> QED
    BY <1>4, <1>6

LEMMA RefusedIs ==
    ASSUME NEW n \in Name, NEW k \in Name, NEW kind, NEW other
    PROVE  Refused(kind, n) = Refused(other, k) <=> kind = other /\ n = k
    BY DEF Refused

(* The entry of a step is one of the program's.                            *)
LEMMA StepIs ==
    ASSUME program \in Programs, NEW i \in 1..Total
    PROVE  /\ Plan[i].step \in {"declare", "struct"} =>
                 Plan[i].entry \in Structs /\ EnteredBy(Plan[i]) = {}
           /\ Plan[i].step = "extern" =>
                 <<Plan[i].entry.name, Plan[i].entry>> \in Callees /\ EnteredBy(Plan[i]) = {Plan[i].entry.name}
           /\ Plan[i].step = "function" =>
                 /\ <<Plan[i].entry.name, Plan[i].entry>> \in Callees
                 /\ <<Plan[i].entry.emitted, Plan[i].entry>> \in Callees
                 /\ EnteredBy(Plan[i]) = {Plan[i].entry.name, Plan[i].entry.emitted}
<1>1. Shape
    BY PlanShape
<1>2. /\ DOMAIN program.structs = 1..Len(program.structs)
      /\ DOMAIN program.externs = 1..Len(program.externs)
      /\ DOMAIN program.functions = 1..Len(program.functions)
    BY ProgramsAssumption, LenProperties DEF Program
<1>3. PICK s, e, f : s = Len(program.structs) /\ e = Len(program.externs) /\ f = Len(program.functions)
    OBVIOUS
<1>4. s \in Nat /\ e \in Nat /\ f \in Nat /\ i \in Nat /\ 1 <= i /\ i <= s + s + e + f
  <2>1. s \in Nat /\ e \in Nat /\ f \in Nat /\ Total = s + s + e + f
      BY <1>1, <1>3 DEF Shape
  <2> QED
      BY <2>1
<1>5. DOMAIN program.structs = 1..s /\ DOMAIN program.externs = 1..e /\ DOMAIN program.functions = 1..f
    BY <1>2, <1>3
<1>6. Plan[i] = IF i <= s THEN [step |-> "declare", entry |-> program.structs[i]]
                 ELSE IF i <= s + s THEN [step |-> "struct", entry |-> program.structs[i - s]]
                 ELSE IF i <= s + s + e THEN [step |-> "extern", entry |-> program.externs[i - s - s]]
                 ELSE [step |-> "function", entry |-> program.functions[i - s - s - e]]
    BY <1>1, <1>3 DEF Shape
<1>7. CASE i <= s
  <2>1. Plan[i] = [step |-> "declare", entry |-> program.structs[i]] /\ i \in DOMAIN program.structs
      BY <1>7, <1>4, <1>5, <1>6
  <2> QED
      BY <2>1 DEF Structs, EnteredBy
<1>8. CASE ~(i <= s) /\ i <= s + s
  <2>1. Plan[i] = [step |-> "struct", entry |-> program.structs[i - s]] /\ i - s \in DOMAIN program.structs
      BY <1>8, <1>4, <1>5, <1>6
  <2> QED
      BY <2>1 DEF Structs, EnteredBy
<1>9. CASE ~(i <= s + s) /\ i <= s + s + e
  <2>1. ~(i <= s)
      BY <1>9, <1>4
  <2>2. Plan[i] = [step |-> "extern", entry |-> program.externs[i - s - s]]
      BY <1>9, <1>6, <2>1
  <2>3. i - s - s \in DOMAIN program.externs
      BY <1>9, <1>4, <1>5
  <2>4. PICK g : g = program.externs[i - s - s]
      OBVIOUS
  <2>5. <<g.name, g>> \in Callees
      BY <2>3, <2>4 DEF Callees
  <2> QED
      BY <2>2, <2>4, <2>5 DEF EnteredBy
<1>10. CASE ~(i <= s + s + e)
  <2>1. ~(i <= s) /\ ~(i <= s + s)
      BY <1>10, <1>4
  <2>2. Plan[i] = [step |-> "function", entry |-> program.functions[i - s - s - e]]
      BY <1>10, <1>6, <2>1
  <2>3. i - s - s - e \in DOMAIN program.functions
      BY <1>10, <1>4, <1>5
  <2>4. PICK g : g = program.functions[i - s - s - e]
      OBVIOUS
  <2>5. <<g.name, g>> \in Callees /\ <<g.emitted, g>> \in Callees
      BY <2>3, <2>4 DEF Callees
  <2> QED
      BY <2>2, <2>4, <2>5 DEF EnteredBy
<1> QED
    BY <1>7, <1>8, <1>9, <1>10, <1>4

LEMMA FunctionsStart == TableInit => FunctionsInv
<1> SUFFICES ASSUME TableInit PROVE FunctionsInv
    OBVIOUS
<1>1. program \in Programs /\ pending = Plan /\ funcs = <<>> /\ refused = {}
    BY DEF TableInit, Plan
<1>2. Plan \in Seq(Step) /\ Total \in Nat /\ Len(pending) = Total /\ Done = 0
    BY <1>1, PlanShape, LenProperties DEF Shape, Total, Done
<1>3. Follows
    BY <1>1, <1>2 DEF Follows, Total
<1>4. Entered = {} /\ RefusedFunctions = {}
    BY <1>1, <1>2 DEF Entered, RefusedFunctions
<1>5. funcs \in Seq(Row) /\ Len(funcs) = 0 /\ DOMAIN funcs = {}
    BY <1>1, EmptySeq
<1>6. TableOk(funcs, RefusedFunctions, Entered)
    BY <1>4, <1>5 DEF TableOk, OneRowEach
<1>7. Roomy(funcs, RefusedFunctions, Entered)
    BY <1>4, <1>5, FS_EmptySet DEF Roomy
<1> QED
    BY <1>1, <1>3, <1>6, <1>7 DEF FunctionsInv

LEMMA FunctionsStep == FunctionsInv /\ [TableNext]_tableVars => FunctionsInv'
<1> SUFFICES ASSUME FunctionsInv, [TableNext]_tableVars PROVE FunctionsInv'
    OBVIOUS
<1>1. /\ Follows /\ program \in Programs /\ TableOk(funcs, RefusedFunctions, Entered)
      /\ LongOnce => Roomy(funcs, RefusedFunctions, Entered)
      /\ \A r \in refused : r.name \in Name /\ r = Refused(r.kind, r.name)
    BY DEF FunctionsInv, Follows
<1>2. ASSUME program' = program, NEW t, NEW R, NEW D,
             t = funcs', R = RefusedFunctions', D = Entered', Follows',
             TableOk(t, R, D), LongOnce => Roomy(t, R, D),
             \A r \in refused' : r.name \in Name /\ r = Refused(r.kind, r.name)
      PROVE  FunctionsInv'
  <2>1. TableOk(t, R, D)' /\ (LongOnce' => Roomy(t, R, D)')
      BY <1>2, SameProgram
  <2>2. Name' = Name /\ \A k, n : Refused(k, n)' = Refused(k, n)
      BY DEF Name, Refused
  <2> QED
      BY <1>2, <2>1, <2>2 DEF FunctionsInv, TableOk, Roomy
<1>3. \A n : n \in Name => \A r : r = Refused("function", n) => r.name \in Name /\ r = Refused(r.kind, r.name)
    BY DEF Refused
<1>4. CASE UNCHANGED tableVars
  <2>1. /\ program' = program /\ pending' = pending /\ funcs' = funcs /\ refused' = refused
      BY <1>4 DEF tableVars
  <2>2. Plan' = Plan /\ Total' = Total /\ Done' = Done
      BY <2>1 DEF Plan, Total, Done
  <2>3. Entered' = Entered /\ RefusedFunctions' = RefusedFunctions
      BY <2>1, <2>2 DEF Entered, RefusedFunctions
  <2>4. Follows'
      BY <1>1, <2>1, <2>2 DEF Follows
  <2> QED
      BY <1>1, <1>2, <2>1, <2>3, <2>4
<1>5. ASSUME NEW step \in {"declare", "struct"}, Entering(step), funcs' = funcs,
             NEW n \in Name, refused' \subseteq refused \cup {Refused("struct", n)}, refused \subseteq refused'
      PROVE  FunctionsInv'
  <2>1. Follows' /\ program' = program /\ Done + 1 \in 1..Total /\ Plan[Done + 1].step = step
      BY <1>1, <1>5, FollowsNext DEF Entering
  <2>2. Entered' = Entered
      BY <1>1, <1>5, <2>1, EnteredNext, StepIs
  <2>3. RefusedFunctions' = RefusedFunctions
    <3>1. \A k \in Name : Refused("function", k) # Refused("struct", n)
        BY <1>5, RefusedIs
    <3> QED
        BY <1>5, <3>1 DEF RefusedFunctions
  <2>4. \A r \in refused' : r.name \in Name /\ r = Refused(r.kind, r.name)
      BY <1>1, <1>5 DEF Refused
  <2> QED
      BY <1>1, <1>2, <1>5, <2>1, <2>2, <2>3, <2>4
<1>6. ASSUME NEW step \in {"declare", "struct"}, Entering(step)
      PROVE  Entry.name \in Name
  <2>1. Done + 1 \in 1..Total /\ Plan[Done + 1].step = step /\ Entry = Plan[Done + 1].entry
      BY <1>1, <1>6, FollowsNext
  <2>2. Entry \in Structs
      BY <1>1, <1>6, <2>1, StepIs
  <2> QED
    <3>1. program.structs \in Seq(Struct)
        BY <1>1, ProgramsAssumption DEF Program
    <3>2. PICK k \in DOMAIN program.structs : Entry = program.structs[k]
        BY <2>2 DEF Structs
    <3>3. Entry \in Struct
        BY <3>1, <3>2
    <3> QED
        BY <3>3 DEF Struct
<1>7. CASE vix_declare_struct_sig
    BY <1>5, <1>6, <1>7 DEF vix_declare_struct_sig, Lost
<1>8. CASE vix_register_struct_sig_abi
    BY <1>5, <1>6, <1>8 DEF vix_register_struct_sig_abi, Lost
<1>9. ASSUME NEW n \in Name, refused' = refused \cup (IF NoRoom(funcs, n) THEN {Refused("function", n)} ELSE {})
      PROVE  RefusedFunctions' = WithLost(funcs, RefusedFunctions, n)
    BY <1>9, RefusedIs DEF RefusedFunctions, WithLost
<1>10. CASE vix_register_function_sig_vararg
  <2>1. PICK e : e = Entry
      OBVIOUS
  <2>2. /\ Entering("extern") /\ funcs' = WithFunction(funcs, e.name, e)
        /\ refused' = refused \cup (IF NoRoom(funcs, e.name) THEN {Refused("function", e.name)} ELSE {})
      BY <1>10, <2>1 DEF vix_register_function_sig_vararg
  <2>3. /\ Follows' /\ program' = program /\ Done + 1 \in 1..Total
        /\ Plan[Done + 1].step = "extern" /\ e = Plan[Done + 1].entry
      BY <1>1, <2>1, <2>2, FollowsNext DEF Entering
  <2>4. <<e.name, e>> \in Callees /\ EnteredBy(Plan[Done + 1]) = {e.name}
      BY <1>1, <2>3, StepIs
  <2>5. e.name \in Name
      BY <1>1, <2>4, CalleesAre
  <2>6. Entered' = Entered \cup {e.name} /\ (LongOnce => Short(e.name) \/ e.name \notin Entered)
      BY <1>1, <2>2, <2>4, EnteredNext
  <2>7. RefusedFunctions' = WithLost(funcs, RefusedFunctions, e.name)
      BY <1>9, <2>2, <2>5
  <2>8. PICK c : c = <<e.name, e>>
      OBVIOUS
  <2>9. /\ TableOk(WithFunction(funcs, c[1], c[2]), WithLost(funcs, RefusedFunctions, c[1]), Entered \cup {c[1]})
        /\ LongOnce => Roomy(WithFunction(funcs, c[1], c[2]), WithLost(funcs, RefusedFunctions, c[1]), Entered \cup {c[1]})
      BY <1>1, <2>4, <2>6, <2>8, EnterOne
  <2>10. \A r \in refused' : r.name \in Name /\ r = Refused(r.kind, r.name)
      BY <1>1, <1>3, <2>2, <2>5
  <2> QED
      BY <1>2, <2>2, <2>3, <2>6, <2>7, <2>8, <2>9, <2>10
<1>11. CASE register_function_sig
  <2>1. PICK f : f = Entry
      OBVIOUS
  <2>2. PICK first : first = WithFunction(funcs, f.name, f)
      OBVIOUS
  <2>3. /\ Entering("function")
        /\ funcs' = IF f.emitted = f.name THEN first ELSE WithFunction(first, f.emitted, f)
        /\ refused' = refused \cup (IF NoRoom(funcs, f.name) THEN {Refused("function", f.name)} ELSE {})
                              \cup (IF f.emitted # f.name /\ NoRoom(first, f.emitted)
                                    THEN {Refused("function", f.emitted)} ELSE {})
      BY <1>11, <2>1, <2>2 DEF register_function_sig
  <2>4. /\ Follows' /\ program' = program /\ Done + 1 \in 1..Total
        /\ Plan[Done + 1].step = "function" /\ f = Plan[Done + 1].entry
      BY <1>1, <2>1, <2>3, FollowsNext DEF Entering
  <2>5. /\ <<f.name, f>> \in Callees /\ <<f.emitted, f>> \in Callees
        /\ EnteredBy(Plan[Done + 1]) = {f.name, f.emitted}
      BY <1>1, <2>4, StepIs
  <2>6. f.name \in Name /\ f.emitted \in Name
      BY <1>1, <2>5, CalleesAre
  <2>7. /\ Entered' = Entered \cup {f.name, f.emitted}
        /\ LongOnce => /\ Short(f.name) \/ f.name \notin Entered
                       /\ Short(f.emitted) \/ f.emitted \notin Entered
      BY <1>1, <2>3, <2>5, EnteredNext
  <2>8. PICK c, d : c = <<f.name, f>> /\ d = <<f.emitted, f>>
      OBVIOUS
  <2>9. PICK R : R = WithLost(funcs, RefusedFunctions, f.name)
      OBVIOUS
  <2>10. PICK D : D = Entered \cup {f.name}
      OBVIOUS
  <2>11. TableOk(first, R, D) /\ (LongOnce => Roomy(first, R, D))
    <3>1. /\ TableOk(WithFunction(funcs, c[1], c[2]), WithLost(funcs, RefusedFunctions, c[1]), Entered \cup {c[1]})
          /\ LongOnce => Roomy(WithFunction(funcs, c[1], c[2]), WithLost(funcs, RefusedFunctions, c[1]), Entered \cup {c[1]})
        BY <1>1, <2>5, <2>7, <2>8, EnterOne
    <3> QED
        BY <2>2, <2>8, <2>9, <2>10, <3>1
  <2>12. \A r \in refused' : r.name \in Name /\ r = Refused(r.kind, r.name)
      BY <1>1, <1>3, <2>3, <2>6
  <2>13. CASE f.emitted = f.name
    <3>1. refused' = refused \cup (IF NoRoom(funcs, f.name) THEN {Refused("function", f.name)} ELSE {})
        BY <2>3, <2>13
    <3>2. RefusedFunctions' = R /\ Entered' = D /\ funcs' = first
        BY <1>9, <2>3, <2>6, <2>7, <2>9, <2>10, <2>13, <3>1
    <3> QED
        BY <1>2, <2>4, <2>11, <2>12, <3>2
  <2>14. CASE f.emitted # f.name
    <3>1. RefusedFunctions' = WithLost(first, R, f.emitted)
        BY <2>3, <2>6, <2>9, <2>14, RefusedIs DEF RefusedFunctions, WithLost
    <3>2. Entered' = D \cup {f.emitted} /\ funcs' = WithFunction(first, f.emitted, f)
        BY <2>3, <2>7, <2>10, <2>14
    <3>3. LongOnce => Short(f.emitted) \/ f.emitted \notin D
        BY <2>7, <2>10, <2>14
    <3>4. /\ TableOk(WithFunction(first, d[1], d[2]), WithLost(first, R, d[1]), D \cup {d[1]})
          /\ LongOnce => Roomy(WithFunction(first, d[1], d[2]), WithLost(first, R, d[1]), D \cup {d[1]})
        BY <1>1, <2>5, <2>8, <2>11, <3>3, EnterOne
    <3> QED
        BY <1>2, <2>4, <2>8, <2>12, <3>1, <3>2, <3>4
  <2> QED
      BY <2>13, <2>14
<1> QED
    BY <1>4, <1>7, <1>8, <1>10, <1>11 DEF TableNext

LEMMA AllEntered ==
    ASSUME Follows, pending = <<>>, NEW c \in Callees
    PROVE  c[1] \in Entered
<1>1. program \in Programs /\ Shape
    BY PlanShape DEF Follows
<1>2. /\ DOMAIN program.structs = 1..Len(program.structs)
      /\ DOMAIN program.externs = 1..Len(program.externs)
      /\ DOMAIN program.functions = 1..Len(program.functions)
    BY <1>1, ProgramsAssumption, LenProperties DEF Program
<1>3. PICK s, e, f : s = Len(program.structs) /\ e = Len(program.externs) /\ f = Len(program.functions)
    OBVIOUS
<1>4. s \in Nat /\ e \in Nat /\ f \in Nat /\ Total = s + s + e + f
    BY <1>1, <1>3 DEF Shape
<1>5. ASSUME NEW i \in 1..Total
      PROVE  Plan[i] = IF i <= s THEN [step |-> "declare", entry |-> program.structs[i]]
                       ELSE IF i <= s + s THEN [step |-> "struct", entry |-> program.structs[i - s]]
                       ELSE IF i <= s + s + e THEN [step |-> "extern", entry |-> program.externs[i - s - s]]
                       ELSE [step |-> "function", entry |-> program.functions[i - s - s - e]]
    BY <1>1, <1>3 DEF Shape
<1>6. Done = Total
    BY <1>4 DEF Done
<1>7. CASE \E k \in DOMAIN program.externs : c = <<program.externs[k].name, program.externs[k]>>
  <2>1. PICK k \in 1..e : c = <<program.externs[k].name, program.externs[k]>>
      BY <1>2, <1>3, <1>7
  <2>2. PICK i : i = s + s + k
      OBVIOUS
  <2>3. i \in 1..Total /\ ~(i <= s) /\ ~(i <= s + s) /\ i <= s + s + e /\ i - s - s = k
      BY <1>4, <2>2
  <2>4. Plan[i] = [step |-> "extern", entry |-> program.externs[k]]
      BY <1>5, <2>3
  <2>5. c[1] \in EnteredBy(Plan[i])
      BY <2>1, <2>4 DEF EnteredBy
  <2> QED
      BY <1>6, <2>3, <2>5 DEF Entered
<1>8. CASE \E k \in DOMAIN program.functions :
              c \in {<<program.functions[k].name, program.functions[k]>>,
                    <<program.functions[k].emitted, program.functions[k]>>}
  <2>1. PICK k \in 1..f : c[1] \in {program.functions[k].name, program.functions[k].emitted}
      BY <1>2, <1>3, <1>8
  <2>2. PICK i : i = s + s + e + k
      OBVIOUS
  <2>3. i \in 1..Total /\ ~(i <= s) /\ ~(i <= s + s) /\ ~(i <= s + s + e) /\ i - s - s - e = k
      BY <1>4, <2>2
  <2>4. Plan[i] = [step |-> "function", entry |-> program.functions[k]]
      BY <1>5, <2>3
  <2>5. c[1] \in EnteredBy(Plan[i])
      BY <2>1, <2>4 DEF EnteredBy
  <2> QED
      BY <1>6, <2>3, <2>5 DEF Entered
<1> QED
    BY <1>7, <1>8 DEF Callees

LEMMA RowTypes ==
    ASSUME NEW f \in Function, NEW g \in Function, NEW n, SameSignature(f, g),
           Short(f.ret), \A i \in DOMAIN f.params : Short(f.params[i])
    PROVE  LET row == FunctionRow(n, f) IN
           /\ row.return_type = g.ret /\ row.is_var_arg = g.is_var_arg
           /\ Len(row.param_types) = Len(AtMost(MaxParams, g.params))
           /\ DOMAIN row.param_types = 1..Len(AtMost(MaxParams, g.params))
           /\ \A i \in DOMAIN row.param_types : row.param_types[i] = g.params[i]
<1>1. /\ f.ret \in Name /\ f.params \in Seq(Name)
      /\ g.ret = f.ret /\ g.params = f.params /\ g.is_var_arg = f.is_var_arg
    BY DEF Function, SameSignature
<1>2. PICK a : a = AtMost(MaxParams, f.params)
    OBVIOUS
<1>3. /\ a \in Seq(Name) /\ Len(a) \in Nat /\ DOMAIN f.params = 1..Len(f.params)
      /\ \A i \in 1..Len(a) : i \in 1..Len(f.params) /\ a[i] = f.params[i]
    BY <1>1, <1>2, AtMostIs, LenProperties, LimitsAssumption
<1>4. \A i \in 1..Len(a) : Cut(a[i]) = f.params[i]
    BY <1>3, CutIs, ElementOfSeq
<1>5. /\ CutAll(a) \in Seq(Name) /\ Len(CutAll(a)) = Len(a)
      /\ \A i \in 1..Len(a) : CutAll(a)[i] = f.params[i]
    BY <1>3, <1>4, CutAllIs
<1>6. DOMAIN CutAll(a) = 1..Len(a)
    BY <1>3, <1>5, LenProperties
<1>7. Cut(f.ret) = g.ret
    BY <1>1, CutIs
<1> QED
    BY <1>1, <1>2, <1>5, <1>6, <1>7 DEF FunctionRow

LEMMA TypedByTheTable == FunctionsInv => CallsTyped
<1> SUFFICES ASSUME FunctionsInv, pending = <<>>, FunctionsFit, NEW c \in Callees
             PROVE  TypedAs(c[1], c[2])
    BY DEF CallsTyped, Filled
<1>1. /\ Follows /\ program \in Programs /\ TableOk(funcs, RefusedFunctions, Entered)
    BY DEF FunctionsInv, Follows
<1>2. PICK n, f : n = c[1] /\ f = c[2]
    OBVIOUS
<1>3. n \in Name /\ f \in Function /\ n \in FunctionNames /\ n \in Entered
    BY <1>1, <1>2, CalleesAre, AllEntered DEF FunctionNames
<1>4. funcs \in Seq(Row) /\ DOMAIN funcs = 1..Len(funcs) /\ \A i \in DOMAIN funcs : Short(funcs[i].name)
    BY <1>1, LenProperties DEF TableOk
<1>5. PICK r : r = LastRow(funcs, n)
    OBVIOUS
<1>6. IF HasRow(funcs, n) THEN r \in 1..Len(funcs) /\ funcs[r].name = n ELSE r = 0
    BY <1>4, <1>5, LastRowIs
<1>7. CASE ~InTable("function", n)
  <2>1. ~HasRow(funcs, n)
    <3>1. n \in RefusedFunctions => ~HasRow(funcs, n)
        BY <1>1 DEF TableOk
    <3>2. ~Short(n) => ~HasRow(funcs, n)
        BY <1>4 DEF HasRow
    <3> QED
        BY <1>3, <1>7, <3>1, <3>2 DEF InTable, RefusedFunctions
  <2>2. LastRow(funcs, n) = 0
      BY <1>5, <1>6, <2>1
  <2> QED
      BY <1>2, <1>7, <2>2 DEF TypedAs, vix_get_function_return_type, vix_get_function_param_count
<1>8. CASE InTable("function", n)
  <2>1. HasRow(funcs, n) /\ Short(n)
      BY <1>1, <1>3, <1>8 DEF InTable, RefusedFunctions, TableOk
  <2>2. r \in 1..Len(funcs) /\ funcs[r].name = n /\ r # 0
      BY <1>4, <1>6, <2>1
  <2>3. PICK e \in Callees : funcs[r] = FunctionRow(e[1], e[2])
      BY <1>1, <1>4, <2>2 DEF TableOk
  <2>4. Cut(e[1]) = n /\ Cut(c[1]) = n /\ e[2] \in Function /\ e[1] \in Name
      BY <1>1, <1>2, <1>3, <2>1, <2>2, <2>3, CalleesAre, CutIs, RowIs
  <2>5. SameSignature(e[2], f) /\ Short(e[2].ret) /\ \A i \in DOMAIN e[2].params : Short(e[2].params[i])
      BY <1>2, <2>3, <2>4 DEF FunctionsFit
  <2>6. PICK row : row = funcs[r]
      OBVIOUS
  <2>7. PICK m : m = Len(AtMost(MaxParams, f.params))
      OBVIOUS
  <2>8. /\ row.return_type = f.ret /\ row.is_var_arg = f.is_var_arg
        /\ Len(row.param_types) = m /\ DOMAIN row.param_types = 1..m
        /\ \A i \in DOMAIN row.param_types : row.param_types[i] = f.params[i]
      BY <1>3, <2>3, <2>4, <2>5, <2>6, <2>7, RowTypes
  <2>9. /\ MaxParams \in Nat /\ Len(f.params) \in Nat /\ DOMAIN f.params = 1..Len(f.params)
        /\ m = IF Len(f.params) < MaxParams THEN Len(f.params) ELSE MaxParams
    <3>1. f.params \in Seq(Name) /\ MaxParams \in Nat
        BY <1>3, LimitsAssumption DEF Function
    <3> QED
        BY <2>7, <3>1, AtMostIs, LenProperties
  <2>10. \A i \in DOMAIN f.params :
            vix_get_function_param_type(n, i) = IF i <= MaxParams THEN f.params[i] ELSE I32
    <3>1. \A i \in DOMAIN f.params : i <= MaxParams <=> i \in 1..m
        BY <2>9
    <3> QED
        BY <1>5, <2>2, <2>6, <2>8, <3>1 DEF vix_get_function_param_type
  <2>11. /\ vix_get_function_return_type(n) = f.ret
         /\ vix_get_function_param_count(n) = m
         /\ vix_get_function_is_var_arg(n) = f.is_var_arg
      BY <1>5, <2>2, <2>6, <2>8
      DEF vix_get_function_return_type, vix_get_function_param_count, vix_get_function_is_var_arg
  <2> QED
      BY <1>2, <1>8, <2>7, <2>10, <2>11 DEF TypedAs
<1> QED
    BY <1>7, <1>8

(* A call is typed by the function that was declared by its name, whatever *)
(* else is in the table and however full it is (src/src/helper.c,          *)
(* vix_register_function_sig_vararg and the vix_get_function_ family).     *)
THEOREM CallsAreTyped == TableSpec => []CallsTyped
<1> QED
    BY FunctionsStart, FunctionsStep, TypedByTheTable, PTL DEF TableSpec

(* While there are rows for every name, every function has one             *)
(* (src/src/helper.c, vix_register_function_sig_vararg).                   *)
THEOREM NoNameIsLost == TableSpec => []RoomForEveryName
<1>1. FunctionsInv => RoomForEveryName
  <2> SUFFICES ASSUME FunctionsInv, LongOnce, NEW r \in refused, r.kind = "function"
               PROVE  Cardinality(FunctionNames) > MaxEntries
      BY DEF RoomForEveryName
  <2>1. r.name \in RefusedFunctions
      BY DEF FunctionsInv, RefusedFunctions
  <2> QED
      BY <2>1 DEF FunctionsInv, Roomy
<1> QED
    BY <1>1, FunctionsStart, FunctionsStep, PTL DEF TableSpec

-----------------------------------------------------------------------------
(* The table of structures.                                                *)
StructRow == [name : Name, field_names : Seq(Name), field_types : Seq(Name),
              llvm_type : {StructType(n) : n \in Name}, body_set : BOOLEAN]
RowsOk(table) ==
    /\ table \in Seq(StructRow)
    /\ \A i \in DOMAIN table : \E d \in Structs : table[i].name = Cut(d.name) /\ table[i].llvm_type = StructType(d.name)
    /\ \A d \in Structs : \A i, j \in DOMAIN table : table[i].name = d.name /\ table[j].name = d.name => i = j

LEMMA StructsAre ==
    ASSUME program \in Programs
    PROVE  /\ Structs \subseteq Struct
           /\ \A d \in Structs : d.name \in Name /\ d.fields \in Seq([name : Name, type : Name])
<1>1. program.structs \in Seq(Struct)
    BY ProgramsAssumption DEF Program
<1>2. Structs \subseteq Struct
    BY <1>1 DEF Structs
<1> QED
    BY <1>2 DEF Struct

LEMMA OneStruct ==
    ASSUME StructsFit, NEW d \in Structs, NEW e \in Structs, Cut(d.name) = Cut(e.name)
    PROVE  d = e
    BY DEF StructsFit, Structs

LEMMA DeclaredIs ==
    ASSUME program \in Programs, StructsFit, NEW table, RowsOk(table), NEW d \in Structs
    PROVE  LET new == Declared(table, d.name) IN
           /\ RowsOk(new) /\ Len(new) >= Len(table) /\ Len(table) \in Nat
           /\ \A i \in DOMAIN table : i \in DOMAIN new /\ new[i] = table[i]
           /\ \A i \in DOMAIN new : i \in DOMAIN table \/ new[i] = NewStruct(d.name)
           /\ HasRow(table, d.name) => new = table /\ Lost(table, d.name) = {}
           /\ Lost(table, d.name) \subseteq {Refused("struct", d.name)}
           /\ Lost(table, d.name) = {} /\ Short(d.name) => HasRow(new, d.name)
<1>1. PICK n : n = d.name
    OBVIOUS
<1>2. n \in Name /\ Cut(n) \in Name /\ Short(Cut(n)) /\ (Short(n) => Cut(n) = n)
    BY <1>1, StructsAre, CutIs
<1>3. table \in Seq(StructRow) /\ Len(table) \in Nat /\ DOMAIN table = 1..Len(table)
    BY LenProperties DEF RowsOk
<1>4. HasRow(table, n) <=> LastRow(table, n) # 0
    BY <1>3, LastRowIs
<1>5. CASE HasRow(table, n) \/ Len(table) >= MaxEntries
  <2>1. Declared(table, n) = table
      BY <1>4, <1>5 DEF Declared
  <2>2. HasRow(table, n) => Lost(table, n) = {}
      BY <1>4 DEF Lost
  <2>3. ~HasRow(table, n) => Lost(table, n) # {}
      BY <1>4, <1>5 DEF Lost
  <2>4. Lost(table, n) \subseteq {Refused("struct", n)}
      BY DEF Lost
  <2> QED
      BY <1>1, <1>3, <2>1, <2>2, <2>3, <2>4
<1>6. CASE ~HasRow(table, n) /\ ~(Len(table) >= MaxEntries)
  <2>1. PICK row : row = NewStruct(n)
      OBVIOUS
  <2>2. /\ row \in StructRow /\ row.name = Cut(n) /\ row.llvm_type = StructType(n)
    <3>1. <<>> \in Seq(Name)
        BY EmptySeq
    <3> QED
        BY <1>2, <2>1, <3>1 DEF NewStruct, StructRow
  <2>3. PICK new : new = Append(table, row)
      OBVIOUS
  <2>4. Declared(table, n) = new /\ Lost(table, n) = {}
      BY <1>4, <1>6, <2>1, <2>3 DEF Declared, Lost
  <2>5. /\ new \in Seq(StructRow) /\ Len(new) = Len(table) + 1 /\ DOMAIN new = 1..Len(table) + 1
        /\ \A i \in 1..Len(table) : new[i] = table[i]
        /\ new[Len(table) + 1] = row
      BY <1>3, <2>2, <2>3, AppendProperties, LenProperties
  <2>6. \A i \in DOMAIN new : \E e \in Structs : new[i].name = Cut(e.name) /\ new[i].llvm_type = StructType(e.name)
      BY <1>1, <1>3, <2>2, <2>5 DEF RowsOk
  <2>7. ASSUME NEW e \in Structs, NEW i \in DOMAIN new, NEW j \in DOMAIN new,
               new[i].name = e.name, new[j].name = e.name
        PROVE  i = j
    <3>1. row.name = e.name => e.name = n
      <4>1. ASSUME row.name = e.name PROVE e.name = n
        <5>1. Cut(e.name) = Cut(d.name)
            BY <1>1, <1>2, <2>2, <4>1, CutIs
        <5> QED
            BY <1>1, <5>1, OneStruct
      <4> QED
          BY <4>1
    <3>2. \A k \in DOMAIN table : row.name = e.name => table[k].name # e.name
        BY <1>6, <3>1 DEF HasRow
    <3>3. CASE i \in 1..Len(table) /\ j \in 1..Len(table)
        BY <1>3, <2>5, <2>7, <3>3 DEF RowsOk
    <3>4. CASE i = Len(table) + 1 /\ j = Len(table) + 1
        BY <3>4
    <3>5. CASE i \in 1..Len(table) /\ j = Len(table) + 1
        BY <1>3, <2>5, <2>7, <3>2, <3>5
    <3>6. CASE i = Len(table) + 1 /\ j \in 1..Len(table)
        BY <1>3, <2>5, <2>7, <3>2, <3>6
    <3> QED
        BY <1>3, <2>5, <3>3, <3>4, <3>5, <3>6
  <2>8. RowsOk(new)
      BY <2>5, <2>6, <2>7 DEF RowsOk
  <2>9. Short(n) => HasRow(new, n)
      BY <1>2, <1>3, <2>2, <2>5 DEF HasRow
  <2>10. /\ Len(new) >= Len(table)
         /\ \A i \in DOMAIN table : i \in DOMAIN new /\ new[i] = table[i]
         /\ \A i \in DOMAIN new : i \in DOMAIN table \/ new[i] = row
      BY <1>3, <2>5
  <2> QED
      BY <1>1, <1>3, <1>6, <2>1, <2>4, <2>8, <2>9, <2>10
<1> QED
    BY <1>5, <1>6

(* What is true of the structures D that were declared and G that were     *)
(* registered, in a table with these bodies and losses.                    *)
In(lost, n) == Short(n) /\ Refused("struct", n) \notin lost
Kept(d) == AtMost(MaxFields, d.fields)
Unset(table, bs, d) ==
    /\ \A r \in DOMAIN table : table[r].name = d.name => ~table[r].body_set
    /\ \A k \in DOMAIN bs : bs[k].type # StructType(d.name)
LaidIn(table, d) ==
    \E r \in DOMAIN table :
        /\ table[r].name = d.name
        /\ table[r].field_names = CutAll(NamesOf(Kept(d)))
        /\ table[r].field_types = CutAll(TypesOf(Kept(d)))
BodyIn(bs, lost, d) ==
    \E k \in DOMAIN bs :
        /\ bs[k].type = StructType(d.name)
        /\ \A m \in DOMAIN bs : bs[m].type = StructType(d.name) => m = k
        /\ \A i \in DOMAIN Kept(d) : In(lost, Kept(d)[i].type) =>
                bs[k].fields[i] = Denotes(Kept(d)[i].type, d.is_c_abi)
StructsOk(table, bs, lost, D, G) ==
    /\ RowsOk(table) /\ G \subseteq Structs /\ \E S : bs \in Seq(S)
    /\ \A d \in D : In(lost, d.name) => HasRow(table, d.name)
    /\ \A d \in Structs \ G : Unset(table, bs, d)
    /\ \A d \in G : In(lost, d.name) => LaidIn(table, d) /\ BodyIn(bs, lost, d)

LEMMA LoseMore ==
    ASSUME NEW table, NEW bs, NEW lost, NEW more, NEW D, NEW G,
           StructsOk(table, bs, lost, D, G), lost \subseteq more
    PROVE  StructsOk(table, bs, more, D, G)
<1>1. \A n : In(more, n) => In(lost, n)
    BY DEF In
<1>2. \A d : BodyIn(bs, lost, d) => BodyIn(bs, more, d)
    BY <1>1 DEF BodyIn
<1> QED
    BY <1>1, <1>2 DEF StructsOk

LEMMA DeclareOk ==
    ASSUME program \in Programs, StructsFit, NEW table, NEW bs, NEW lost, NEW D, NEW G, NEW d \in Structs,
           StructsOk(table, bs, lost, D, G)
    PROVE  StructsOk(Declared(table, d.name), bs, lost \cup Lost(table, d.name), D \cup {d}, G)
<1>1. PICK new : new = Declared(table, d.name)
    OBVIOUS
<1>2. PICK more : more = lost \cup Lost(table, d.name)
    OBVIOUS
<1>3. StructsOk(table, bs, more, D, G) /\ RowsOk(table)
  <2>1. lost \subseteq more
      BY <1>2
  <2>2. StructsOk(table, bs, more, D, G)
      BY <2>1, LoseMore
  <2> QED
      BY <2>2 DEF StructsOk
<1>4. /\ RowsOk(new) /\ Len(new) >= Len(table) /\ Len(table) \in Nat
      /\ \A i \in DOMAIN table : i \in DOMAIN new /\ new[i] = table[i]
      /\ \A i \in DOMAIN new : i \in DOMAIN table \/ new[i] = NewStruct(d.name)
      /\ Lost(table, d.name) \subseteq {Refused("struct", d.name)}
      /\ Lost(table, d.name) = {} /\ Short(d.name) => HasRow(new, d.name)
    BY <1>1, <1>3, DeclaredIs
<1>5. \A n : HasRow(table, n) => HasRow(new, n)
    BY <1>4 DEF HasRow
<1>6. In(more, d.name) => HasRow(new, d.name)
    BY <1>2, <1>4 DEF In
<1>7. ~NewStruct(d.name).body_set
    BY DEF NewStruct
<1>8. \A e \in Structs : Unset(table, bs, e) => Unset(new, bs, e)
    BY <1>4, <1>7 DEF Unset
<1>9. \A e \in Structs : LaidIn(table, e) => LaidIn(new, e)
    BY <1>4 DEF LaidIn
<1>10. StructsOk(new, bs, more, D \cup {d}, G)
    BY <1>3, <1>4, <1>5, <1>6, <1>8, <1>9 DEF StructsOk
<1> QED
    BY <1>1, <1>2, <1>10

LEMMA TypeMeans ==
    ASSUME program \in Programs, StructsFit, NEW table, RowsOk(table), NEW abi,
           NEW type \in Scalars \cup ArrayTypes \cup StructNames, type \in StructNames => HasRow(table, type)
    PROVE  vix_llvm_type_for_name(table, type, abi) = Denotes(type, abi)
<1>1. CASE type \in Scalars
    BY <1>1 DEF vix_llvm_type_for_name, Denotes
<1>2. CASE type \notin Scalars /\ type \in ArrayTypes
    BY <1>2 DEF vix_llvm_type_for_name, Denotes
<1>3. CASE type \notin Scalars /\ type \notin ArrayTypes
  <2>1. PICK d \in Structs : type = d.name
      BY <1>3 DEF StructNames
  <2>2. table \in Seq(StructRow) /\ DOMAIN table = 1..Len(table) /\ HasRow(table, type)
      BY <1>3, LenProperties DEF RowsOk
  <2>3. PICK r : r = LastRow(table, type)
      OBVIOUS
  <2>4. r \in DOMAIN table /\ r # 0 /\ table[r].name = type
      BY <2>2, <2>3, LastRowIs
  <2>5. PICK e \in Structs : table[r].name = Cut(e.name) /\ table[r].llvm_type = StructType(e.name)
      BY <2>4 DEF RowsOk
  <2>6. Cut(d.name) = Cut(e.name)
    <3>1. e.name \in Name
        BY <2>5, StructsAre
    <3>2. Short(type)
        BY <2>4, <2>5, <3>1, CutIs
    <3> QED
        BY <2>1, <2>4, <2>5, <3>2, StructsAre, CutIs
  <2>7. d = e
      BY <2>5, <2>6, OneStruct
  <2> QED
      BY <1>3, <2>1, <2>3, <2>4, <2>5, <2>7 DEF vix_llvm_type_for_name, Denotes
<1> QED
    BY <1>1, <1>2, <1>3

\* The table and the bodies after structure d is registered at row idx of t.
Registers(t, idx, d, bs, new, bs2) ==
    IF idx = 0 THEN new = t /\ bs2 = bs
    ELSE /\ new = [t EXCEPT ![idx].field_names = CutAll(NamesOf(Kept(d))),
                            ![idx].field_types = CutAll(TypesOf(Kept(d))), ![idx].body_set = TRUE]
         /\ bs2 = IF t[idx].body_set THEN bs
                  ELSE Append(bs, [type |-> t[idx].llvm_type, fields |->
                           [i \in DOMAIN Kept(d) |-> vix_llvm_type_for_name(t, Kept(d)[i].type, d.is_c_abi)]])

LEMMA RegisterOk ==
    ASSUME program \in Programs, StructsFit, NEW table, NEW bs, NEW lost, NEW G, NEW s \in Structs, s \notin G,
           StructsOk(table, bs, lost, Structs, G),
           NEW t, t = Declared(table, s.name), NEW idx, idx = LastRow(t, s.name),
           NEW more, more = lost \cup Lost(table, s.name), NEW new, NEW bs2,
           Registers(t, idx, s, bs, new, bs2)
    PROVE  StructsOk(new, bs2, more, Structs, G \cup {s})
<1>1. StructsOk(t, bs, more, Structs, G)
  <2>1. Structs \cup {s} = Structs
      OBVIOUS
  <2> QED
    <3>1. StructsOk(Declared(table, s.name), bs, lost \cup Lost(table, s.name), Structs \cup {s}, G)
        BY DeclareOk
    <3> QED
        BY <2>1, <3>1
<1>2. RowsOk(t) /\ t \in Seq(StructRow) /\ DOMAIN t = 1..Len(t) /\ Len(t) \in Nat
    BY <1>1, LenProperties DEF StructsOk, RowsOk
<1>3. /\ HasRow(t, s.name) => idx \in 1..Len(t) /\ idx # 0 /\ t[idx].name = s.name
      /\ ~HasRow(t, s.name) => idx = 0
    BY <1>2, LastRowIs
<1>4. s.name \in Name /\ Kept(s) \in Seq([name : Name, type : Name]) /\ DOMAIN Kept(s) = 1..Len(Kept(s))
  <2>1. s.name \in Name /\ s.fields \in Seq([name : Name, type : Name]) /\ MaxFields \in Nat
      BY StructsAre, LimitsAssumption
  <2> QED
      BY <2>1, AtMostIs, LenProperties DEF Kept
<1>5. Unset(t, bs, s)
    BY <1>1 DEF StructsOk
<1>6. CASE idx = 0
  <2>1. ~In(more, s.name)
      BY <1>1, <1>3, <1>6 DEF StructsOk
  <2> QED
      BY <1>1, <1>6, <2>1 DEF StructsOk, Registers
<1>7. CASE idx # 0
  <2>1. idx \in 1..Len(t) /\ t[idx].name = s.name /\ ~t[idx].body_set
      BY <1>2, <1>3, <1>5, <1>7 DEF Unset
  <2>2. PICK row : row = t[idx]
      OBVIOUS
  <2>3. row \in StructRow /\ row.name = s.name /\ ~row.body_set
      BY <1>2, <2>1, <2>2, ElementOfSeq
  <2>4. Short(s.name) /\ row.llvm_type = StructType(s.name)
    <3>1. PICK e \in Structs : row.name = Cut(e.name) /\ row.llvm_type = StructType(e.name)
        BY <1>2, <2>1, <2>2 DEF RowsOk
    <3>2. Short(s.name) /\ Cut(s.name) = s.name
        BY <1>4, <2>3, <3>1, StructsAre, CutIs
    <3>3. s = e
        BY <2>3, <3>1, <3>2, OneStruct
    <3> QED
        BY <3>1, <3>2, <3>3
  <2>5. PICK names : names = CutAll(NamesOf(Kept(s)))
      OBVIOUS
  <2>6. PICK types : types = CutAll(TypesOf(Kept(s)))
      OBVIOUS
  <2>7. names \in Seq(Name) /\ types \in Seq(Name)
    <3>1. PICK a : a = Kept(s)
        OBVIOUS
    <3>2. Len(a) \in Nat /\ DOMAIN a = 1..Len(a) /\ \A i \in 1..Len(a) : a[i] \in [name : Name, type : Name]
        BY <1>4, <3>1, LenProperties, ElementOfSeq
    <3>3. \A i \in 1..Len(a) : a[i].name \in Name /\ a[i].type \in Name
        BY <3>2
    <3>4. NamesOf(a) \in Seq(Name)
      <4>1. NamesOf(a) = [i \in 1..Len(a) |-> a[i].name]
          BY <3>2 DEF NamesOf
      <4> QED
          BY <3>2, <3>3, <4>1
    <3>5. TypesOf(a) \in Seq(Name)
      <4>1. TypesOf(a) = [i \in 1..Len(a) |-> a[i].type]
          BY <3>2 DEF TypesOf
      <4> QED
          BY <3>2, <3>3, <4>1
    <3> QED
        BY <2>5, <2>6, <3>1, <3>4, <3>5, CutAllIs
  <2>8. PICK row2 : row2 = [row EXCEPT !.field_names = names, !.field_types = types, !.body_set = TRUE]
      OBVIOUS
  <2>9. /\ row2 \in StructRow /\ row2.name = s.name /\ row2.llvm_type = row.llvm_type
        /\ row2.field_names = names /\ row2.field_types = types
      BY <2>3, <2>7, <2>8 DEF StructRow
  <2>10. new = [t EXCEPT ![idx] = row2]
      BY <1>2, <1>7, <2>1, <2>2, <2>5, <2>6, <2>8 DEF Registers
  <2>11. /\ new \in Seq(StructRow) /\ Len(new) = Len(t) /\ DOMAIN new = 1..Len(t)
         /\ \A i \in 1..Len(t) : new[i] = IF i = idx THEN row2 ELSE t[i]
      BY <1>2, <2>1, <2>9, <2>10, LenProperties
  <2>12. \A i \in 1..Len(t) : new[i].name = t[i].name /\ new[i].llvm_type = t[i].llvm_type
      BY <2>2, <2>3, <2>9, <2>11
  <2>13. RowsOk(new)
    <3>1. \A i \in DOMAIN new : \E d \in Structs : new[i].name = Cut(d.name) /\ new[i].llvm_type = StructType(d.name)
        BY <1>2, <2>11, <2>12 DEF RowsOk
    <3>2. \A d \in Structs : \A i, j \in DOMAIN new : new[i].name = d.name /\ new[j].name = d.name => i = j
      <4>1. \A d \in Structs : \A i, j \in DOMAIN t : t[i].name = d.name /\ t[j].name = d.name => i = j
          BY <1>2 DEF RowsOk
      <4>2. ASSUME NEW d \in Structs, NEW i \in DOMAIN new, NEW j \in DOMAIN new,
                   new[i].name = d.name, new[j].name = d.name
            PROVE  i = j
        <5>1. i \in DOMAIN t /\ j \in DOMAIN t /\ t[i].name = d.name /\ t[j].name = d.name
            BY <1>2, <2>11, <2>12, <4>2
        <5> QED
            BY <4>1, <5>1
      <4> QED
          BY <4>2
    <3> QED
        BY <2>11, <3>1, <3>2 DEF RowsOk
  <2>14. \A n : HasRow(t, n) => HasRow(new, n)
      BY <1>2, <2>11, <2>12 DEF HasRow
  <2>15. PICK fields : fields = [i \in DOMAIN Kept(s) |-> vix_llvm_type_for_name(t, Kept(s)[i].type, s.is_c_abi)]
      OBVIOUS
  <2>16. PICK body : body = [type |-> row.llvm_type, fields |-> fields]
      OBVIOUS
  <2>17. bs2 = Append(bs, body)
      BY <1>7, <2>1, <2>2, <2>15, <2>16 DEF Registers
  <2>18. /\ \E S : bs2 \in Seq(S)
         /\ DOMAIN bs = 1..Len(bs) /\ Len(bs) \in Nat /\ DOMAIN bs2 = 1..Len(bs) + 1
         /\ \A k \in 1..Len(bs) : bs2[k] = bs[k]
         /\ bs2[Len(bs) + 1] = body
    <3>1. PICK S : bs \in Seq(S)
        BY <1>1 DEF StructsOk
    <3>2. PICK T : T = S \cup {body}
        OBVIOUS
    <3>3. bs \in Seq(T) /\ body \in T
      <4>1. S \subseteq T
          BY <3>2
      <4> QED
          BY <3>1, <3>2, <4>1, SeqMonotonic
    <3>4. bs2 \in Seq(T) /\ Len(bs2) = Len(bs) + 1 /\ Len(bs) \in Nat
        BY <2>17, <3>3, AppendProperties, LenProperties
    <3>5. DOMAIN bs = 1..Len(bs) /\ DOMAIN bs2 = 1..Len(bs2)
        BY <3>3, <3>4, LenProperties
    <3>6. /\ \A k \in 1..Len(bs) : bs2[k] = bs[k]
          /\ bs2[Len(bs) + 1] = body
        BY <2>17, <3>3, AppendProperties
    <3>7. \E V : bs2 \in Seq(V)
        BY <3>4
    <3> QED
        BY <3>4, <3>5, <3>6, <3>7
  <2>19. body.type = StructType(s.name) /\ body.fields = fields
      BY <2>4, <2>16
  <2>20. \A d \in Structs : d # s => d.name # s.name /\ StructType(d.name) # StructType(s.name)
      BY OneStruct DEF StructType
  <2>21. ASSUME NEW d \in Structs, d # s, Unset(t, bs, d)
         PROVE  Unset(new, bs2, d)
    <3>1. ASSUME NEW q \in DOMAIN new, new[q].name = d.name
          PROVE  ~new[q].body_set
      <4>1. q \in DOMAIN t /\ q # idx /\ new[q] = t[q]
          BY <1>2, <2>9, <2>11, <2>20, <2>21, <3>1
      <4> QED
          BY <2>21, <3>1, <4>1 DEF Unset
    <3>2. ASSUME NEW k \in DOMAIN bs2
          PROVE  bs2[k].type # StructType(d.name)
      <4>1. CASE k \in 1..Len(bs)
          BY <2>18, <2>21, <4>1 DEF Unset
      <4>2. CASE k = Len(bs) + 1
          BY <2>18, <2>19, <2>20, <2>21, <4>2
      <4> QED
          BY <2>18, <4>1, <4>2
    <3> QED
        BY <3>1, <3>2 DEF Unset
  <2>22. ASSUME NEW d \in Structs, d # s, LaidIn(t, d), BodyIn(bs, more, d)
         PROVE  LaidIn(new, d) /\ BodyIn(bs2, more, d)
    <3>1. LaidIn(new, d)
      <4>1. PICK r \in DOMAIN t : /\ t[r].name = d.name
                                  /\ t[r].field_names = CutAll(NamesOf(Kept(d)))
                                  /\ t[r].field_types = CutAll(TypesOf(Kept(d)))
          BY <2>22 DEF LaidIn
      <4>2. r \in DOMAIN new /\ r # idx /\ new[r] = t[r]
          BY <1>2, <2>1, <2>11, <2>20, <2>22, <4>1
      <4> QED
          BY <4>1, <4>2 DEF LaidIn
    <3>2. BodyIn(bs2, more, d)
      <4>1. PICK k \in DOMAIN bs :
                /\ bs[k].type = StructType(d.name)
                /\ \A m \in DOMAIN bs : bs[m].type = StructType(d.name) => m = k
                /\ \A i \in DOMAIN Kept(d) : In(more, Kept(d)[i].type) =>
                        bs[k].fields[i] = Denotes(Kept(d)[i].type, d.is_c_abi)
          BY <2>22 DEF BodyIn
      <4>2. k \in DOMAIN bs2 /\ bs2[k] = bs[k]
          BY <2>18, <4>1
      <4>3. \A m \in DOMAIN bs2 : bs2[m].type = StructType(d.name) => m = k
          BY <2>18, <2>19, <2>20, <2>22, <4>1
      <4> QED
          BY <4>1, <4>2, <4>3 DEF BodyIn
    <3> QED
        BY <3>1, <3>2
  <2>23. LaidIn(new, s)
      BY <1>2, <2>1, <2>5, <2>6, <2>9, <2>11 DEF LaidIn
  <2>24. BodyIn(bs2, more, s)
    <3>1. ASSUME NEW i \in DOMAIN Kept(s), In(more, Kept(s)[i].type)
          PROVE  fields[i] = Denotes(Kept(s)[i].type, s.is_c_abi)
      <4>1. i \in DOMAIN s.fields /\ Kept(s)[i] = s.fields[i]
        <5>1. s.fields \in Seq([name : Name, type : Name]) /\ MaxFields \in Nat
            BY StructsAre, LimitsAssumption
        <5> QED
            BY <1>4, <5>1, AtMostIs, LenProperties DEF Kept
      <4>2. PICK type : type = Kept(s)[i].type
          OBVIOUS
      <4>3. type \in Scalars \cup ArrayTypes \cup StructNames
          BY <4>1, <4>2 DEF StructsFit
      <4>4. type \in StructNames => HasRow(t, type)
          BY <1>1, <3>1, <4>2 DEF StructNames, StructsOk
      <4>5. vix_llvm_type_for_name(t, type, s.is_c_abi) = Denotes(type, s.is_c_abi)
          BY <1>2, <4>3, <4>4, TypeMeans
      <4> QED
          BY <2>15, <4>2, <4>5
    <3>2. \A m \in DOMAIN bs2 : bs2[m].type = StructType(s.name) => m = Len(bs) + 1
        BY <1>5, <2>18 DEF Unset
    <3>3. Len(bs) + 1 \in DOMAIN bs2 /\ bs2[Len(bs) + 1].type = StructType(s.name)
          /\ bs2[Len(bs) + 1].fields = fields
        BY <2>18, <2>19
    <3> QED
        BY <3>1, <3>2, <3>3 DEF BodyIn
  <2>25. \A d \in Structs : In(more, d.name) => HasRow(new, d.name)
      BY <1>1, <2>14 DEF StructsOk
  <2>26. \A d \in Structs \ (G \cup {s}) : Unset(new, bs2, d)
      BY <1>1, <2>21 DEF StructsOk
  <2>27. \A d \in G \cup {s} : In(more, d.name) => LaidIn(new, d) /\ BodyIn(bs2, more, d)
    <3>1. \A d \in G : d \in Structs /\ d # s
        BY <1>1 DEF StructsOk
    <3> QED
        BY <1>1, <2>22, <2>23, <2>24, <3>1 DEF StructsOk
  <2> QED
      BY <1>1, <2>13, <2>18, <2>25, <2>26, <2>27 DEF StructsOk
<1> QED
    BY <1>6, <1>7

DeclaredYet == {Plan[i].entry : i \in {k \in 1..Done : Plan[k].step = "declare"}}
RegisteredYet == {Plan[i].entry : i \in {k \in 1..Done : Plan[k].step = "struct"}}
StructsInv == Follows /\ (StructsFit => StructsOk(structs, bodies, refused, DeclaredYet, RegisteredYet))

LEMMA SameStructs ==
    ASSUME program' = program, NEW t, NEW bs, NEW lost, NEW D, NEW G
    PROVE  /\ StructsFit' <=> StructsFit
           /\ StructsOk(t, bs, lost, D, G)' <=> StructsOk(t, bs, lost, D, G)
<1>1. Structs' = Structs
    BY DEF Structs
<1>2. StructNames' = StructNames
    BY <1>1 DEF StructNames
<1>3. StructsFit' <=> StructsFit
    BY <1>1, <1>2 DEF StructsFit
<1>4. RowsOk(t)' <=> RowsOk(t)
    BY <1>1 DEF RowsOk
<1>5. StructsOk(t, bs, lost, D, G)' <=> StructsOk(t, bs, lost, D, G)
    BY <1>1, <1>4 DEF StructsOk
<1> QED
    BY <1>3, <1>5

LEMMA YetNext ==
    ASSUME Follows, NEW step, Entering(step)
    PROVE  /\ DeclaredYet' = IF step = "declare" THEN DeclaredYet \cup {Entry} ELSE DeclaredYet
           /\ RegisteredYet' = IF step = "struct" THEN RegisteredYet \cup {Entry} ELSE RegisteredYet
<1>1. /\ Plan' = Plan /\ Done' = Done + 1 /\ Done \in Nat
      /\ Plan[Done + 1].step = step /\ Entry = Plan[Done + 1].entry
    BY FollowsNext
<1>2. PICK plan : plan = Plan
    OBVIOUS
<1>3. PICK n : n = Done
    OBVIOUS
<1>4. 1..n + 1 = (1..n) \cup {n + 1}
    BY <1>1, <1>3
<1>5. DeclaredYet' = {plan[i].entry : i \in {k \in 1..n + 1 : plan[k].step = "declare"}}
    BY <1>1, <1>2, <1>3 DEF DeclaredYet
<1>6. RegisteredYet' = {plan[i].entry : i \in {k \in 1..n + 1 : plan[k].step = "struct"}}
    BY <1>1, <1>2, <1>3 DEF RegisteredYet
<1>7. DeclaredYet = {plan[i].entry : i \in {k \in 1..n : plan[k].step = "declare"}}
    BY <1>2, <1>3 DEF DeclaredYet
<1>8. RegisteredYet = {plan[i].entry : i \in {k \in 1..n : plan[k].step = "struct"}}
    BY <1>2, <1>3 DEF RegisteredYet
<1>9. plan[n + 1].step = step /\ Entry = plan[n + 1].entry
    BY <1>1, <1>2, <1>3
<1> QED
    BY <1>4, <1>5, <1>6, <1>7, <1>8, <1>9

(* Every structure is declared before the first is registered, once.       *)
LEMMA StructsInOrder ==
    ASSUME Follows, StructsFit
    PROVE  /\ Done + 1 \in 1..Total /\ Plan[Done + 1].step = "struct" =>
                 DeclaredYet = Structs /\ Plan[Done + 1].entry \notin RegisteredYet
           /\ Done = Total => RegisteredYet = Structs
<1>1. program \in Programs /\ Shape
    BY PlanShape DEF Follows
<1>2. PICK s, e, f : s = Len(program.structs) /\ e = Len(program.externs) /\ f = Len(program.functions)
    OBVIOUS
<1>3. DOMAIN program.structs = 1..s
    BY <1>1, <1>2, ProgramsAssumption, LenProperties DEF Program
<1>4. s \in Nat /\ e \in Nat /\ f \in Nat /\ Total = s + s + e + f
    BY <1>1, <1>2 DEF Shape
<1>5. \A i \in 1..Total :
          Plan[i] = IF i <= s THEN [step |-> "declare", entry |-> program.structs[i]]
                    ELSE IF i <= s + s THEN [step |-> "struct", entry |-> program.structs[i - s]]
                    ELSE IF i <= s + s + e THEN [step |-> "extern", entry |-> program.externs[i - s - s]]
                    ELSE [step |-> "function", entry |-> program.functions[i - s - s - e]]
    BY <1>1, <1>2 DEF Shape
<1>6. Done \in Nat /\ Done <= Total
    BY <1>4, LenProperties DEF Follows, Done
<1>7. ASSUME NEW i \in 1..Total, Plan[i].step = "struct"
      PROVE  ~(i <= s) /\ i <= s + s /\ Plan[i].entry = program.structs[i - s]
  <2>1. ASSUME i <= s PROVE Plan[i].step = "declare"
    <3>1. Plan[i] = [step |-> "declare", entry |-> program.structs[i]]
        BY <1>5, <2>1
    <3> QED
        BY <3>1
  <2>2. ASSUME ~(i <= s), ~(i <= s + s) PROVE Plan[i].step \in {"extern", "function"}
    <3>1. \/ Plan[i] = [step |-> "extern", entry |-> program.externs[i - s - s]]
          \/ Plan[i] = [step |-> "function", entry |-> program.functions[i - s - s - e]]
        BY <1>5, <2>2
    <3> QED
        BY <3>1
  <2>3. ASSUME ~(i <= s), i <= s + s PROVE Plan[i].entry = program.structs[i - s]
    <3>1. Plan[i] = [step |-> "struct", entry |-> program.structs[i - s]]
        BY <1>5, <2>3
    <3> QED
        BY <3>1
  <2> QED
      BY <1>7, <2>1, <2>2, <2>3
<1>8. \A k \in 1..s : /\ k \in 1..Total /\ Plan[k] = [step |-> "declare", entry |-> program.structs[k]]
                     /\ k + s \in 1..Total /\ Plan[k + s] = [step |-> "struct", entry |-> program.structs[k]]
  <2>1. \A k \in 1..s : /\ k \in 1..Total /\ k <= s
                       /\ k + s \in 1..Total /\ ~(k + s <= s) /\ k + s <= s + s /\ (k + s) - s = k
      BY <1>4
  <2>2. \A k \in 1..s : Plan[k] = [step |-> "declare", entry |-> program.structs[k]]
      BY <1>5, <2>1
  <2>3. ASSUME NEW k \in 1..s, NEW i, i = k + s
        PROVE  Plan[i] = [step |-> "struct", entry |-> program.structs[k]]
    <3>1. i \in 1..Total /\ ~(i <= s) /\ i <= s + s /\ i - s = k
        BY <2>1, <2>3
    <3>2. Plan[i] = [step |-> "struct", entry |-> program.structs[i - s]]
        BY <1>5, <3>1
    <3> QED
        BY <3>1, <3>2
  <2> QED
      BY <2>1, <2>2, <2>3
<1>9. DeclaredYet \subseteq Structs /\ RegisteredYet \subseteq Structs
  <2>1. ASSUME NEW i \in 1..Done, Plan[i].step \in {"declare", "struct"}
        PROVE  Plan[i].entry \in Structs
    <3>1. i \in 1..Total
        BY <1>4, <1>6
    <3> QED
        BY <1>1, <2>1, <3>1, StepIs
  <2> QED
      BY <2>1 DEF DeclaredYet, RegisteredYet
<1>10. ASSUME Done + 1 \in 1..Total, Plan[Done + 1].step = "struct"
       PROVE  DeclaredYet = Structs /\ Plan[Done + 1].entry \notin RegisteredYet
  <2>1. ~(Done + 1 <= s) /\ Done + 1 <= s + s /\ Plan[Done + 1].entry = program.structs[Done + 1 - s]
    <3>1. PICK i : i = Done + 1
        OBVIOUS
    <3>2. i \in 1..Total /\ Plan[i].step = "struct"
        BY <1>10, <3>1
    <3>3. ~(i <= s) /\ i <= s + s /\ Plan[i].entry = program.structs[i - s]
        BY <1>7, <3>2
    <3>4. i - s = Done + 1 - s
        BY <1>4, <1>6, <3>1
    <3> QED
        BY <3>1, <3>3, <3>4
  <2>2. ASSUME NEW d \in Structs PROVE d \in DeclaredYet
    <3>1. PICK k \in 1..s : d = program.structs[k]
        BY <1>3 DEF Structs
    <3>2. k \in 1..Done
        BY <1>4, <1>6, <2>1
    <3>3. Plan[k] = [step |-> "declare", entry |-> program.structs[k]]
        BY <1>8
    <3>4. Plan[k].step = "declare" /\ Plan[k].entry = d
        BY <3>1, <3>3
    <3> QED
        BY <3>2, <3>4 DEF DeclaredYet
  <2>3. ASSUME Plan[Done + 1].entry \in RegisteredYet PROVE FALSE
    <3>1. PICK i \in 1..Done : Plan[i].step = "struct" /\ Plan[i].entry = Plan[Done + 1].entry
        BY <2>3 DEF RegisteredYet
    <3>2. i \in 1..Total
        BY <1>4, <1>6
    <3>3. ~(i <= s) /\ i <= s + s /\ Plan[i].entry = program.structs[i - s]
        BY <1>7, <3>1, <3>2
    <3>4. i - s \in 1..s /\ Done + 1 - s \in 1..s /\ i - s # Done + 1 - s
        BY <1>4, <1>6, <2>1, <3>2, <3>3
    <3> QED
        BY <1>3, <2>1, <3>1, <3>3, <3>4 DEF StructsFit
  <2> QED
      BY <1>9, <2>2, <2>3
<1>11. ASSUME Done = Total
       PROVE  RegisteredYet = Structs
  <2>1. ASSUME NEW d \in Structs PROVE d \in RegisteredYet
    <3>1. PICK k \in 1..s : d = program.structs[k]
        BY <1>3 DEF Structs
    <3>2. PICK i : i = k + s
        OBVIOUS
    <3>3. i \in 1..Done /\ Plan[i] = [step |-> "struct", entry |-> d]
        BY <1>8, <1>11, <3>1, <3>2
    <3>4. Plan[i].step = "struct" /\ Plan[i].entry = d
        BY <3>3
    <3> QED
        BY <3>3, <3>4 DEF RegisteredYet
  <2> QED
      BY <1>9, <2>1
<1> QED
    BY <1>10, <1>11

LEMMA StructsStart == TableInit => StructsInv
<1> SUFFICES ASSUME TableInit, StructsFit
             PROVE  Follows /\ StructsOk(structs, bodies, refused, DeclaredYet, RegisteredYet)
    BY FunctionsStart DEF StructsInv, FunctionsInv
<1>1. Follows
    BY FunctionsStart DEF FunctionsInv
<1>2. Done = 0 /\ structs = <<>> /\ bodies = <<>> /\ refused = {}
  <2>1. program \in Programs /\ pending = Plan
      BY DEF TableInit, Plan
  <2> QED
      BY <2>1, PlanShape, LenProperties DEF TableInit, Shape, Total, Done
<1>3. DeclaredYet = {} /\ RegisteredYet = {}
    BY <1>2 DEF DeclaredYet, RegisteredYet
<1>4. structs \in Seq(StructRow) /\ DOMAIN structs = {} /\ DOMAIN bodies = {} /\ bodies \in Seq({})
    BY <1>2, EmptySeq
<1> QED
    BY <1>1, <1>3, <1>4 DEF StructsOk, RowsOk, Unset

LEMMA StructsStep == StructsInv /\ [TableNext]_tableVars => StructsInv'
<1> SUFFICES ASSUME StructsInv, [TableNext]_tableVars PROVE StructsInv'
    OBVIOUS
<1>1. Follows /\ program \in Programs /\ (StructsFit => StructsOk(structs, bodies, refused, DeclaredYet, RegisteredYet))
    BY DEF StructsInv, Follows
<1>2. ASSUME program' = program, Follows', NEW t, NEW bs, NEW lost, NEW D, NEW G,
             t = structs', bs = bodies', lost = refused', D = DeclaredYet', G = RegisteredYet',
             StructsFit => StructsOk(t, bs, lost, D, G)
      PROVE  StructsInv'
  <2>1. StructsFit' => StructsOk(t, bs, lost, D, G)'
      BY <1>2, SameStructs
  <2> QED
      BY <1>2, <2>1 DEF StructsInv, StructsOk, Unset, LaidIn, BodyIn, In
<1>3. CASE UNCHANGED tableVars
  <2>1. /\ program' = program /\ pending' = pending /\ structs' = structs /\ bodies' = bodies /\ refused' = refused
      BY <1>3 DEF tableVars
  <2>2. Plan' = Plan /\ Total' = Total /\ Done' = Done
      BY <2>1 DEF Plan, Total, Done
  <2>3. DeclaredYet' = DeclaredYet /\ RegisteredYet' = RegisteredYet
      BY <2>2 DEF DeclaredYet, RegisteredYet
  <2>4. Follows'
      BY <1>1, <2>1, <2>2 DEF Follows
  <2> QED
      BY <1>1, <1>2, <2>1, <2>3, <2>4
<1>4. ASSUME NEW step \in {"extern", "function"}, Entering(step), UNCHANGED <<structs, bodies>>,
             refused \subseteq refused'
      PROVE  StructsInv'
  <2>1. Follows' /\ program' = program /\ DeclaredYet' = DeclaredYet /\ RegisteredYet' = RegisteredYet
      BY <1>1, <1>4, FollowsNext, YetNext DEF Entering
  <2>2. StructsFit => StructsOk(structs, bodies, refused', DeclaredYet, RegisteredYet)
      BY <1>1, <1>4, LoseMore
  <2> QED
      BY <1>2, <1>4, <2>1, <2>2
<1>5. CASE vix_register_function_sig_vararg
    BY <1>4, <1>5 DEF vix_register_function_sig_vararg
<1>6. CASE register_function_sig
    BY <1>4, <1>6 DEF register_function_sig
<1>7. CASE vix_declare_struct_sig
  <2>1. PICK d : d = Entry
      OBVIOUS
  <2>2. /\ Entering("declare") /\ structs' = Declared(structs, d.name)
        /\ refused' = refused \cup Lost(structs, d.name) /\ bodies' = bodies
      BY <1>7, <2>1 DEF vix_declare_struct_sig
  <2>3. /\ Follows' /\ program' = program /\ Done + 1 \in 1..Total
        /\ Plan[Done + 1].step = "declare" /\ d = Plan[Done + 1].entry
        /\ DeclaredYet' = DeclaredYet \cup {d} /\ RegisteredYet' = RegisteredYet
      BY <1>1, <2>1, <2>2, FollowsNext, YetNext DEF Entering
  <2>4. d \in Structs
      BY <1>1, <2>3, StepIs
  <2>5. StructsFit => StructsOk(Declared(structs, d.name), bodies, refused \cup Lost(structs, d.name),
                                DeclaredYet \cup {d}, RegisteredYet)
      BY <1>1, <2>4, DeclareOk
  <2> QED
      BY <1>2, <2>2, <2>3, <2>5
<1>8. CASE vix_register_struct_sig_abi
  <2>1. PICK d : d = Entry
      OBVIOUS
  <2>2. PICK t : t = Declared(structs, d.name)
      OBVIOUS
  <2>3. PICK idx : idx = LastRow(t, d.name)
      OBVIOUS
  <2>4. /\ Entering("struct") /\ refused' = refused \cup Lost(structs, d.name)
        /\ Registers(t, idx, d, bodies, structs', bodies')
      BY <1>8, <2>1, <2>2, <2>3 DEF vix_register_struct_sig_abi, Kept, Registers
  <2>5. /\ Follows' /\ program' = program /\ Done + 1 \in 1..Total
        /\ Plan[Done + 1].step = "struct" /\ d = Plan[Done + 1].entry
        /\ DeclaredYet' = DeclaredYet /\ RegisteredYet' = RegisteredYet \cup {d}
      BY <1>1, <2>1, <2>4, FollowsNext, YetNext DEF Entering
  <2>6. d \in Structs
      BY <1>1, <2>5, StepIs
  <2>7. ASSUME StructsFit
        PROVE  StructsOk(structs', bodies', refused', DeclaredYet, RegisteredYet \cup {d})
    <3>1. DeclaredYet = Structs /\ d \notin RegisteredYet
        BY <1>1, <2>5, <2>7, StructsInOrder
    <3>2. PICK new, bs2, more : new = structs' /\ bs2 = bodies' /\ more = refused'
        OBVIOUS
    <3>3. StructsOk(structs, bodies, refused, Structs, RegisteredYet)
        BY <1>1, <2>7, <3>1
    <3>4. StructsOk(new, bs2, more, Structs, RegisteredYet \cup {d})
      <4>1. Registers(t, idx, d, bodies, new, bs2)
          BY <2>4, <3>2
      <4>2. more = refused \cup Lost(structs, d.name)
          BY <2>4, <3>2
      <4> QED
          BY <1>1, <2>2, <2>3, <2>6, <2>7, <3>1, <3>3, <4>1, <4>2, RegisterOk
    <3> QED
        BY <3>1, <3>2, <3>4
  <2> QED
      BY <1>2, <2>5, <2>7
<1> QED
    BY <1>3, <1>5, <1>6, <1>7, <1>8 DEF TableNext

LEMMA FieldIndex ==
    ASSUME StructsFit, program \in Programs, NEW d \in Structs, NEW i \in DOMAIN d.fields
    PROVE  LET names == CutAll(NamesOf(Kept(d))) IN
           /\ DOMAIN names = DOMAIN Kept(d)
           /\ i \in DOMAIN Kept(d) <=> i <= MaxFields
           /\ i \in DOMAIN Kept(d) => /\ Kept(d)[i] = d.fields[i]
                                     /\ CutAll(TypesOf(Kept(d)))[i] = d.fields[i].type
           /\ \A j \in DOMAIN names : names[j] = d.fields[i].name <=> j = i
<1>1. d.fields \in Seq([name : Name, type : Name]) /\ MaxFields \in Nat
    BY StructsAre, LimitsAssumption
<1>2. PICK a : a = Kept(d)
    OBVIOUS
<1>3. /\ a \in Seq([name : Name, type : Name]) /\ Len(a) \in Nat /\ DOMAIN a = 1..Len(a)
      /\ DOMAIN d.fields = 1..Len(d.fields) /\ Len(d.fields) \in Nat
      /\ Len(a) = IF Len(d.fields) < MaxFields THEN Len(d.fields) ELSE MaxFields
      /\ \A j \in 1..Len(a) : j \in 1..Len(d.fields) /\ a[j] = d.fields[j]
    BY <1>1, <1>2, AtMostIs, LenProperties DEF Kept
<1>4. i \in DOMAIN a <=> i <= MaxFields
    BY <1>1, <1>3
<1>5. \A j \in 1..Len(a) : a[j].name \in Name /\ a[j].type \in Name /\ Short(a[j].name) /\ Short(a[j].type)
  <2>1. ASSUME NEW j \in 1..Len(a)
        PROVE  a[j].name \in Name /\ a[j].type \in Name /\ Short(a[j].name) /\ Short(a[j].type)
    <3>1. a[j] \in [name : Name, type : Name]
        BY <1>3, ElementOfSeq
    <3>2. j \in DOMAIN d.fields /\ a[j] = d.fields[j]
        BY <1>3
    <3>3. Short(d.fields[j].name) /\ Short(d.fields[j].type)
        BY <3>2 DEF StructsFit
    <3> QED
        BY <3>1, <3>2, <3>3
  <2> QED
      BY <2>1
<1>6. PICK ns : ns = NamesOf(a)
    OBVIOUS
<1>7. PICK ts : ts = TypesOf(a)
    OBVIOUS
<1>8. ns = [j \in 1..Len(a) |-> a[j].name] /\ ts = [j \in 1..Len(a) |-> a[j].type]
    BY <1>3, <1>6, <1>7 DEF NamesOf, TypesOf
<1>9. ns \in Seq(Name) /\ Len(ns) = Len(a) /\ ts \in Seq(Name) /\ Len(ts) = Len(a)
    BY <1>3, <1>5, <1>8
<1>10. /\ CutAll(ns) \in Seq(Name) /\ Len(CutAll(ns)) = Len(a) /\ \A j \in 1..Len(a) : CutAll(ns)[j] = a[j].name
       /\ \A j \in 1..Len(a) : CutAll(ts)[j] = a[j].type
  <2>1. \A j \in 1..Len(a) : ns[j] = a[j].name /\ ts[j] = a[j].type
      BY <1>8
  <2>2. \A j \in 1..Len(a) : Cut(ns[j]) = a[j].name /\ Cut(ts[j]) = a[j].type
      BY <1>5, <2>1, CutIs
  <2>3. /\ CutAll(ns) \in Seq(Name) /\ Len(CutAll(ns)) = Len(a)
        /\ \A j \in 1..Len(a) : CutAll(ns)[j] = Cut(ns[j])
      BY <1>9, CutAllIs
  <2>4. \A j \in 1..Len(a) : CutAll(ts)[j] = Cut(ts[j])
      BY <1>9, CutAllIs
  <2> QED
      BY <2>2, <2>3, <2>4
<1>11. DOMAIN CutAll(ns) = 1..Len(a)
    BY <1>10, LenProperties
<1>12. \A j \in 1..Len(a) : a[j].name = d.fields[i].name <=> j = i
  <2>1. \A j \in DOMAIN d.fields : d.fields[j].name = d.fields[i].name => j = i
      BY DEF StructsFit
  <2> QED
      BY <1>3, <2>1
<1> QED
    BY <1>2, <1>3, <1>4, <1>6, <1>7, <1>10, <1>11, <1>12

LEMMA FieldsOfTheTable == StructsInv => FieldsAgree
<1> SUFFICES ASSUME StructsInv, pending = <<>>, StructsFit, NEW d \in Structs, InTable("struct", d.name),
                    NEW i \in DOMAIN d.fields, NEW is_ptr \in BOOLEAN
             PROVE  LET index == vix_get_struct_field_index(d.name, is_ptr, d.fields[i].name) IN
                    IF i > MaxFields THEN index = 0
                    ELSE /\ index = i
                         /\ vix_get_struct_field_type(d.name, is_ptr, d.fields[i].name) = d.fields[i].type
                         /\ InTable("struct", d.fields[i].type) =>
                                BodyOf(d.name).fields[i] = Denotes(d.fields[i].type, d.is_c_abi)
    BY DEF FieldsAgree, Filled
<1>1. Follows /\ program \in Programs /\ StructsOk(structs, bodies, refused, DeclaredYet, RegisteredYet)
    BY DEF StructsInv, Follows
<1>2. RegisteredYet = Structs
  <2>1. Done = Total
    <3>1. Total \in Nat
        BY <1>1, PlanShape, LenProperties DEF Shape, Total
    <3> QED
        BY <3>1, EmptySeq DEF Done
  <2> QED
      BY <1>1, <2>1, StructsInOrder
<1>3. LaidIn(structs, d) /\ BodyIn(bodies, refused, d)
    BY <1>1, <1>2 DEF StructsOk, In, InTable
<1>4. structs \in Seq(StructRow) /\ DOMAIN structs = 1..Len(structs) /\ Len(structs) \in Nat
    BY <1>1, LenProperties DEF StructsOk, RowsOk
<1>5. PICK r \in DOMAIN structs : /\ structs[r].name = d.name
                                 /\ structs[r].field_names = CutAll(NamesOf(Kept(d)))
                                 /\ structs[r].field_types = CutAll(TypesOf(Kept(d)))
    BY <1>3 DEF LaidIn
<1>6. vix_find_struct_index(d.name) = r /\ r # 0
  <2>1. HasRow(structs, d.name)
      BY <1>5 DEF HasRow
  <2>2. PICK q : q = LastRow(structs, d.name)
      OBVIOUS
  <2>3. q \in DOMAIN structs /\ structs[q].name = d.name
      BY <1>4, <2>1, <2>2, LastRowIs
  <2>4. q = r
      BY <1>1, <1>5, <2>3 DEF StructsOk, RowsOk
  <2> QED
      BY <1>4, <2>2, <2>4 DEF vix_find_struct_index
<1>7. PICK n : n = d.fields[i].name
    OBVIOUS
<1>8. RowOf(d.name, is_ptr, n) = r
    BY <1>6 DEF RowOf
<1>9. PICK names : names = CutAll(NamesOf(Kept(d)))
    OBVIOUS
<1>10. /\ DOMAIN names = DOMAIN Kept(d)
       /\ i \in DOMAIN Kept(d) <=> i <= MaxFields
       /\ i \in DOMAIN Kept(d) => /\ Kept(d)[i] = d.fields[i]
                                 /\ structs[r].field_types[i] = d.fields[i].type
       /\ \A j \in DOMAIN names : names[j] = n <=> j = i
    BY <1>1, <1>5, <1>7, <1>9, FieldIndex
<1>11. i \in Nat /\ i # 0 /\ MaxFields \in Nat
  <2>1. d.fields \in Seq([name : Name, type : Name])
      BY <1>1, StructsAre
  <2> QED
      BY <2>1, LenProperties, LimitsAssumption
<1>12. PICK at : at = {k \in DOMAIN names : names[k] = n}
    OBVIOUS
<1>13. IndexIn(r, n) = IF at = {} THEN 0 ELSE CHOOSE k \in at : \A m \in at : k <= m
    BY <1>5, <1>9, <1>12 DEF IndexIn
<1>14. vix_get_struct_field_index(d.name, is_ptr, n) = IndexIn(r, n)
    BY <1>6, <1>8 DEF vix_get_struct_field_index
<1>15. CASE i > MaxFields
  <2>1. at = {}
      BY <1>10, <1>11, <1>12, <1>15
  <2> QED
      BY <1>7, <1>13, <1>14, <1>15, <2>1
<1>16. CASE ~(i > MaxFields)
  <2>1. i \in DOMAIN Kept(d)
      BY <1>10, <1>11, <1>16
  <2>2. at = {i}
      BY <1>10, <1>12, <2>1
  <2>3. (CHOOSE k \in at : \A m \in at : k <= m) = i
    <3>1. i \in at /\ \A m \in at : i <= m
        BY <1>11, <2>2
    <3>2. \A k \in at : k = i
        BY <2>2
    <3> QED
        BY <3>1, <3>2
  <2>4. IndexIn(r, n) = i
      BY <1>13, <2>2, <2>3
  <2>5. vix_get_struct_field_type(d.name, is_ptr, n) = d.fields[i].type
      BY <1>8, <1>10, <1>11, <1>14, <2>1, <2>4 DEF vix_get_struct_field_type
  <2>6. ASSUME InTable("struct", d.fields[i].type)
        PROVE  BodyOf(d.name).fields[i] = Denotes(d.fields[i].type, d.is_c_abi)
    <3>1. PICK k \in DOMAIN bodies :
              /\ bodies[k].type = StructType(d.name)
              /\ \A m \in DOMAIN bodies : bodies[m].type = StructType(d.name) => m = k
              /\ \A j \in DOMAIN Kept(d) : In(refused, Kept(d)[j].type) =>
                      bodies[k].fields[j] = Denotes(Kept(d)[j].type, d.is_c_abi)
        BY <1>3 DEF BodyIn
    <3>2. BodyOf(d.name) = bodies[k]
      <4> DEFINE all == {bodies[m] : m \in DOMAIN bodies}
      <4>1. bodies[k] \in all /\ bodies[k].type = StructType(d.name)
          BY <3>1
      <4>2. \A b \in all : b.type = StructType(d.name) => b = bodies[k]
          BY <3>1
      <4> HIDE DEF all
      <4>3. (CHOOSE b \in all : b.type = StructType(d.name)) = bodies[k]
          BY <4>1, <4>2
      <4> QED
          BY <4>3 DEF BodyOf, all
    <3>3. In(refused, d.fields[i].type)
        BY <2>6 DEF In, InTable
    <3> QED
        BY <1>10, <2>1, <3>1, <3>2, <3>3
  <2> QED
      BY <1>7, <1>14, <1>16, <2>4, <2>5, <2>6
<1> QED
    BY <1>15, <1>16

(* The index and the type the code generator finds for a field are those   *)
(* of LLVM's structure, whichever order the structures are declared in and *)
(* however full the table is (src/src/helper.c, vix_register_struct_sig_abi *)
(* and the vix_get_struct_field_ family).                                  *)
THEOREM FieldsAreLaidOut == TableSpec => []FieldsAgree
<1> QED
    BY StructsStart, StructsStep, FieldsOfTheTable, PTL DEF TableSpec

-----------------------------------------------------------------------------
(* The command line of the linker.  Of a text all that counts here is its  *)
(* length.                                                                 *)
IsSeq(t) == \E S : t \in Seq(S)
AreSeqs(list) == IsSeq(list) /\ \A i \in 1..Len(list) : IsSeq(list[i])

LEMMA JoinSeqs ==
    ASSUME NEW s, NEW t, IsSeq(s), IsSeq(t)
    PROVE  /\ IsSeq(s \o t) /\ Len(s) \in Nat /\ Len(t) \in Nat /\ Len(s \o t) = Len(s) + Len(t)
           /\ \A i \in 1..Len(s \o t) : (s \o t)[i] = IF i <= Len(s) THEN s[i] ELSE t[i - Len(s)]
<1>1. PICK S : s \in Seq(S)
    BY DEF IsSeq
<1>2. PICK T : t \in Seq(T)
    BY DEF IsSeq
<1>3. PICK V : V = S \cup T
    OBVIOUS
<1>4. S \subseteq V /\ T \subseteq V
    BY <1>3
<1>5. s \in Seq(V) /\ t \in Seq(V)
    BY <1>1, <1>2, <1>4, SeqMonotonic
<1> QED
    BY <1>5, ConcatProperties, LenProperties DEF IsSeq

LEMMA JoinLists ==
    ASSUME NEW s, NEW t, AreSeqs(s), AreSeqs(t)
    PROVE  AreSeqs(s \o t)
<1>1. /\ IsSeq(s \o t) /\ Len(s) \in Nat /\ Len(t) \in Nat /\ Len(s \o t) = Len(s) + Len(t)
      /\ \A i \in 1..Len(s \o t) : (s \o t)[i] = IF i <= Len(s) THEN s[i] ELSE t[i - Len(s)]
    BY JoinSeqs DEF AreSeqs
<1>2. ASSUME NEW i \in 1..Len(s \o t) PROVE IsSeq((s \o t)[i])
  <2>1. CASE i <= Len(s)
      BY <1>1, <2>1 DEF AreSeqs
  <2>2. CASE ~(i <= Len(s))
    <3>1. i - Len(s) \in 1..Len(t) /\ (s \o t)[i] = t[i - Len(s)]
        BY <1>1, <2>2
    <3> QED
        BY <3>1 DEF AreSeqs
  <2> QED
      BY <2>1, <2>2
<1> QED
    BY <1>1, <1>2 DEF AreSeqs

LEMMA OneSeq ==
    ASSUME NEW x
    PROVE  IsSeq(<<>>) /\ Len(<<>>) = 0 /\ IsSeq(Of(x)) /\ Len(Of(x)) = 1
<1>1. <<>> \in Seq({}) /\ <<x>> \in Seq({x})
    OBVIOUS
<1> QED
    BY <1>1 DEF IsSeq, Of

LEMMA ListOf ==
    ASSUME NEW x, IsSeq(x)
    PROVE  AreSeqs(<<>>) /\ AreSeqs(<<x>>)
<1>1. <<x>> \in Seq({x}) /\ Len(<<x>>) = 1 /\ <<x>>[1] = x
    OBVIOUS
<1>2. AreSeqs(<<>>)
    BY OneSeq DEF AreSeqs
<1> QED
    BY <1>1, <1>2 DEF AreSeqs, IsSeq

LEMMA UpFromZero ==
    ASSUME NEW S \in SUBSET Nat, 0 \in S, \A n \in S : n + 1 \in S
    PROVE  S = Nat
<1> SUFFICES ASSUME Nat \ S # {} PROVE FALSE
    OBVIOUS
<1>1. PICK m \in Nat \ S : \A n \in Nat \ S : m <= n
    BY LeastIndex
<1>2. m # 0 /\ m - 1 \in Nat
    OBVIOUS
<1>3. m - 1 \in S
    BY <1>1, <1>2
<1> QED
    BY <1>2, <1>3

(* The text of the libraries is defined, and is one.                       *)
Longer(links, f, n) == IF n = 0 THEN <<>> ELSE f[n - 1] \o Of(Blank) \o links[n].written

LEMMA LinkTextIsDefined ==
    ASSUME NEW links, NEW N \in Nat
    PROVE  \E f : f = [n \in 0..N |-> Longer(links, f, n)]
<1> DEFINE Reached == {k \in Nat : \E f : f = [n \in 0..k |-> Longer(links, f, n)]}
<1>1. 0 \in Reached
  <2> DEFINE f == [n \in 0..0 |-> <<>>]
  <2>1. f = [n \in 0..0 |-> Longer(links, f, n)]
      BY DEF Longer
  <2> QED
      BY <2>1
<1>2. ASSUME NEW k \in Reached PROVE k + 1 \in Reached
  <2>1. k \in Nat
      OBVIOUS
  <2>2. PICK f : f = [n \in 0..k |-> Longer(links, f, n)]
      OBVIOUS
  <2> DEFINE g == [n \in 0..k + 1 |-> IF n = k + 1 THEN Longer(links, f, n) ELSE f[n]]
  <2>3. ASSUME NEW n \in 0..k + 1 PROVE g[n] = Longer(links, g, n)
    <3>1. CASE n = 0
      <4>1. g[n] = f[0] /\ f[0] = Longer(links, f, 0)
          BY <2>1, <2>2, <3>1
      <4> QED
          BY <3>1, <4>1 DEF Longer
    <3>2. CASE n # 0
      <4>1. n - 1 \in 0..k /\ g[n - 1] = f[n - 1]
          BY <2>1, <3>2
      <4>2. Longer(links, g, n) = Longer(links, f, n)
          BY <3>2, <4>1 DEF Longer
      <4>3. g[n] = Longer(links, f, n)
        <5>1. CASE n = k + 1
            BY <5>1
        <5>2. CASE n # k + 1
          <6>1. n \in 0..k /\ g[n] = f[n]
              BY <2>1, <5>2
          <6> QED
              BY <2>2, <6>1
        <5> QED
            BY <5>1, <5>2
      <4> QED
          BY <4>2, <4>3
    <3> QED
        BY <3>1, <3>2
  <2>4. g = [n \in 0..k + 1 |-> g[n]]
      OBVIOUS
  <2> HIDE DEF g
  <2>5. g = [n \in 0..k + 1 |-> Longer(links, g, n)]
      BY <2>3, <2>4
  <2> QED
      BY <2>1, <2>5
<1>3. Reached = Nat
  <2> HIDE DEF Reached
  <2>1. Reached \in SUBSET Nat
      BY DEF Reached
  <2> QED
      BY <1>1, <1>2, <2>1, UpFromZero
<1> QED
    BY <1>3

LEMMA LinkTextIsSeq ==
    ASSUME NEW links \in Seq(Link)
    PROVE  IsSeq(LinkArgsOf(links))
<1>1. Len(links) \in Nat /\ \A n \in 1..Len(links) : IsSeq(links[n].written)
  <2>1. \A n \in 1..Len(links) : links[n] \in Link
      OBVIOUS
  <2> QED
      BY <2>1 DEF Link, Text, IsSeq
<1>2. PICK f : f = [n \in 0..Len(links) |-> Longer(links, f, n)] /\ LinkArgsOf(links) = f[Len(links)]
  <2> DEFINE f == CHOOSE f : f = [n \in 0..Len(links) |-> Longer(links, f, n)]
  <2>1. f = [n \in 0..Len(links) |-> Longer(links, f, n)]
      BY <1>1, LinkTextIsDefined
  <2>2. LinkArgsOf(links) = f[Len(links)]
      BY DEF LinkArgsOf, Longer
  <2> QED
      BY <2>1, <2>2
<1> DEFINE Good == {n \in Nat : n <= Len(links) => IsSeq(f[n])}
<1>3. 0 \in Good
  <2>1. f[0] = <<>>
      BY <1>1, <1>2 DEF Longer
  <2> QED
      BY <2>1, OneSeq
<1>4. ASSUME NEW n \in Good PROVE n + 1 \in Good
  <2> SUFFICES ASSUME n + 1 <= Len(links) PROVE IsSeq(f[n + 1])
      OBVIOUS
  <2>1. f[n + 1] = f[n] \o Of(Blank) \o links[n + 1].written
    <3>1. n + 1 \in 0..Len(links) /\ n + 1 # 0 /\ n + 1 - 1 = n
        BY <1>1
    <3> QED
        BY <1>2, <3>1 DEF Longer
  <2>2. IsSeq(f[n]) /\ n + 1 \in 1..Len(links)
      BY <1>1
  <2>3. IsSeq(f[n] \o Of(Blank))
      BY <2>2, JoinSeqs, OneSeq
  <2> QED
      BY <1>1, <2>1, <2>2, <2>3, JoinSeqs
<1>5. Good = Nat
  <2> HIDE DEF Good
  <2>1. Good \in SUBSET Nat
      BY DEF Good
  <2> QED
      BY <1>3, <1>4, <2>1, UpFromZero
<1> QED
    BY <1>1, <1>2, <1>5

LEMMA ArgumentsAreSeqs ==
    ASSUME NEW c \in Call, NEW there
    PROVE  AreSeqs(vix_api_link_executable(c, there))
<1>1. IsSeq(c.object) /\ IsSeq(c.runtime) /\ IsSeq(c.output) /\ IsSeq(LinkArgsOf(c.links))
    BY LinkTextIsSeq DEF Call, Text, IsSeq
<1>2. \A paths : IsSeq(find_first_file(paths, there))
    BY OneSeq DEF find_first_file, NotFound
<1>3. \A name : IsSeq(find_in_gcc_dir(name, there))
    BY <1>2 DEF find_in_gcc_dir
<1>4. ASSUME NEW x, NEW y, IsSeq(x), IsSeq(y) PROVE AreSeqs(<<x, y>>)
  <2>1. <<x, y>> \in Seq({x, y}) /\ Len(<<x, y>>) = 2 /\ <<x, y>>[1] = x /\ <<x, y>>[2] = y
      OBVIOUS
  <2>2. \A i \in 1..2 : i = 1 \/ i = 2
      OBVIOUS
  <2> QED
      BY <1>4, <2>1, <2>2 DEF AreSeqs, IsSeq
<1>5. AreSeqs(Opening(c, there))
  <2>1. AreSeqs(<<Of("-o"), c.output>>)
      BY <1>1, <1>4, OneSeq
  <2>2. PICK x, y, z : /\ x = find_first_file(crt_paths, there) /\ y = find_first_file(<<"crti.o">>, there)
                       /\ z = find_in_gcc_dir("crtbeginS.o", there)
      OBVIOUS
  <2>3. AreSeqs(<<x, y, z>>)
    <3>1. <<x, y, z>> = <<x, y>> \o <<z>>
        OBVIOUS
    <3> QED
        BY <1>2, <1>3, <1>4, <2>2, <3>1, ListOf, JoinLists
  <2>4. AreSeqs(<<>>) /\ AreSeqs(<<c.object>>) /\ AreSeqs(<<c.runtime>>)
      BY <1>1, ListOf
  <2>5. PICK a : a = IF c.no_std THEN <<>> ELSE <<x, y, z>>
      OBVIOUS
  <2>6. PICK b : b = IF c.no_std THEN <<>> ELSE <<c.runtime>>
      OBVIOUS
  <2>7. AreSeqs(a) /\ AreSeqs(b)
      BY <2>3, <2>4, <2>5, <2>6
  <2>8. AreSeqs(<<Of("-o"), c.output>> \o a)
      BY <2>1, <2>7, JoinLists
  <2>9. AreSeqs(<<Of("-o"), c.output>> \o a \o <<c.object>>)
      BY <2>4, <2>8, JoinLists
  <2>10. AreSeqs(<<Of("-o"), c.output>> \o a \o <<c.object>> \o b)
      BY <2>7, <2>9, JoinLists
  <2> QED
      BY <2>2, <2>5, <2>6, <2>10 DEF Opening
<1>6. AreSeqs(Closing(c, there))
  <2>1. AreSeqs(append_default_search_dirs(there))
    <3>1. DOMAIN SearchDirs = 1..2
        BY DEF SearchDirs
    <3>2. PICK x, y : /\ x = IF SearchDirs[1] \in there THEN Of(SearchDirs[1]) ELSE NotFound
                      /\ y = IF SearchDirs[2] \in there THEN Of(SearchDirs[2]) ELSE NotFound
        OBVIOUS
    <3>3. append_default_search_dirs(there) = <<x, y>>
        BY <3>1, <3>2 DEF append_default_search_dirs
    <3>4. IsSeq(x) /\ IsSeq(y)
        BY <3>2, OneSeq DEF NotFound
    <3> QED
        BY <1>4, <3>3, <3>4
  <2>2. \A opt, p : IsSeq(p) => AreSeqs(append_opt_path(opt, p))
      BY <1>4, ListOf, OneSeq DEF append_opt_path
  <2>3. PICK o : o = append_opt_path("-dynamic-linker", find_first_file(<<"ld.so">>, there))
      OBVIOUS
  <2>4. AreSeqs(o)
      BY <1>2, <2>2, <2>3
  <2>5. PICK v, w, x, y : /\ v = Of("-lm") /\ w = Of("-lc")
                          /\ x = find_in_gcc_dir("crtendS.o", there) /\ y = find_first_file(<<"crtn.o">>, there)
      OBVIOUS
  <2>6. AreSeqs(<<v, w, x, y>>)
    <3>1. <<v, w, x, y>> = <<v, w>> \o <<x, y>>
        OBVIOUS
    <3> QED
        BY <1>2, <1>3, <1>4, <2>5, <3>1, OneSeq, JoinLists
  <2>7. AreSeqs(append_default_search_dirs(there) \o o)
      BY <2>1, <2>4, JoinLists
  <2>8. AreSeqs(append_default_search_dirs(there) \o o \o <<v, w, x, y>>)
      BY <2>6, <2>7, JoinLists
  <2> QED
      BY <2>3, <2>5, <2>8, ListOf, OneSeq DEF Closing
<1>7. AreSeqs(<<LinkArgsOf(c.links)>>)
    BY <1>1, ListOf
<1>8. AreSeqs(Opening(c, there) \o <<LinkArgsOf(c.links)>>)
    BY <1>5, <1>7, JoinLists
<1> QED
    BY <1>6, <1>8, JoinLists DEF vix_api_link_executable

(* The linker's command line never leaves its buffer, however many         *)
(* libraries are asked for (src/lib/api.c, append_arg).                    *)
LinkInv == AreSeqs(todo) /\ IsSeq(args) /\ TextFits
THEOREM TextStaysInBuffer == LinkSpec => []TextFits
<1>1. LinkInit => LinkInv
  <2> SUFFICES ASSUME LinkInit PROVE LinkInv
      OBVIOUS
  <2>1. call \in Call /\ todo = vix_api_link_executable(call, present) /\ args = <<>>
      BY CallsAssumption DEF LinkInit
  <2> QED
      BY <2>1, ArgumentsAreSeqs, OneSeq, BufferAssumption DEF LinkInv, TextFits
<1>2. LinkInv /\ [LinkNext]_linkVars => LinkInv'
  <2> SUFFICES ASSUME LinkInv, [LinkNext]_linkVars PROVE LinkInv'
      OBVIOUS
  <2>1. CASE AppendNext
    <3>1. PICK arg : arg = todo[1]
        OBVIOUS
    <3>2. todo # <<>> /\ append_arg(arg) /\ todo' = Tail(todo)
        BY <2>1, <3>1 DEF AppendNext
    <3>3. PICK S : todo \in Seq(S)
        BY DEF LinkInv, AreSeqs, IsSeq
    <3>4. Len(todo) \in Nat \ {0}
        BY <3>2, <3>3, EmptySeq
    <3>5. IsSeq(arg)
        BY <3>1, <3>4 DEF LinkInv, AreSeqs
    <3>6. AreSeqs(todo')
      <4>1. todo' \in Seq(S) /\ Len(todo') = Len(todo) - 1 /\ \A i \in 1..Len(todo') : todo'[i] = todo[i + 1]
          BY <3>2, <3>3, HeadTailProperties
      <4>2. \A i \in 1..Len(todo') : i + 1 \in 1..Len(todo)
          BY <3>4, <4>1
      <4>3. \A i \in 1..Len(todo') : IsSeq(todo'[i])
          BY <4>1, <4>2 DEF LinkInv, AreSeqs
      <4> QED
          BY <4>1, <4>3 DEF AreSeqs, IsSeq
    <3>7. IsSeq(args) /\ Len(args) \in Nat /\ Len(arg) \in Nat /\ Size \in Nat /\ Len(args) + 1 <= Size
        BY <3>5, JoinSeqs, BufferAssumption DEF LinkInv, TextFits
    <3>8. IsSeq(args') /\ Len(args') + 1 <= Size
      <4>1. CASE arg = <<>> \/ ~(Len(args) + Len(arg) + 2 < Size)
          BY <3>2, <3>7, <4>1 DEF append_arg
      <4>2. CASE ~(arg = <<>>) /\ Len(args) + Len(arg) + 2 < Size /\ args = <<>>
          BY <3>2, <3>5, <3>7, <4>2, OneSeq DEF append_arg
      <4>3. CASE ~(arg = <<>>) /\ Len(args) + Len(arg) + 2 < Size /\ args # <<>>
        <5>1. args' = args \o Of(Blank) \o arg
            BY <3>2, <4>3 DEF append_arg
        <5>2. IsSeq(args \o Of(Blank)) /\ Len(args \o Of(Blank)) = Len(args) + 1
          <6>1. PICK b : b = Of(Blank)
              OBVIOUS
          <6>2. IsSeq(b) /\ Len(b) = 1
              BY <6>1, OneSeq
          <6>3. IsSeq(args \o b) /\ Len(args \o b) = Len(args) + Len(b)
              BY <3>7, <6>2, JoinSeqs
          <6> QED
              BY <6>1, <6>2, <6>3
        <5>3. IsSeq(args') /\ Len(args') = Len(args) + 1 + Len(arg)
            BY <3>5, <5>1, <5>2, JoinSeqs
        <5> QED
            BY <3>7, <4>3, <5>3
      <4> QED
          BY <4>1, <4>2, <4>3
    <3> QED
        BY <3>6, <3>8 DEF LinkInv, TextFits, AreSeqs, IsSeq
  <2>2. CASE vix_lld_link_elf
      BY <2>2 DEF vix_lld_link_elf, LinkInv, AreSeqs, IsSeq, TextFits
  <2>3. CASE UNCHANGED linkVars
      BY <2>3 DEF linkVars, LinkInv, AreSeqs, IsSeq, TextFits
  <2> QED
      BY <2>1, <2>2, <2>3 DEF LinkNext
<1> QED
    BY <1>1, <1>2, PTL DEF LinkSpec, LinkInv

(* Where lines end.                                                        *)
Kinds == {"name", "keyword", "string", "close", "symbol", "semicolon"}
LexToken == [kind : Kinds, start : Int, end : Int]
Blanks(i, j) == \A k \in i..j - 1 : src[k] # "\n"
Begins(i) == NextCode(i) <= Len(src) /\ CanStart(src[NextCode(i)])
Last == tokens[Len(tokens)]
Reading == src \in Seq(Characters) /\ pos \in 1..Len(src) + 1 /\ tokens \in Seq(LexToken)

(* What is already right of the tokens that were read.                     *)
PairOk(this, next) ==
    IF next.kind = "semicolon" THEN this.kind # "semicolon"
    ELSE this.kind # "semicolon" =>
            (Blanks(this.end + 1, next.start) \/ ~token_can_end_statement(this) \/ ~CanStart(src[next.start]))
Ended(this, i) == ~Blanks(this.end + 1, i) /\ token_can_end_statement(this)
PastOk ==
    /\ tokens # <<>> => tokens[1].kind # "semicolon"
    /\ \A i \in 1..Len(tokens) - 1 : PairOk(tokens[i], tokens[i + 1])
    /\ \A i \in 2..Len(tokens) - 1 : tokens[i].kind = "semicolon" =>
          Ended(tokens[i - 1], tokens[i + 1].start) /\ CanStart(src[tokens[i + 1].start])

(* A semicolon that comes last is owed to the token it was followed by; if *)
(* none comes last, none is owed.                                          *)
LastOk ==
    IF Last.kind = "semicolon"
    THEN Len(tokens) >= 2 /\ Ended(tokens[Len(tokens) - 1], pos) /\ Begins(pos)
    ELSE Last.end < pos /\ ~(Ended(Last, pos) /\ Begins(pos))
LexInv == Reading /\ PastOk /\ (tokens # <<>> => LastOk)

LEMMA FirstIs ==
    ASSUME NEW places \in SUBSET Nat, NEW otherwise
    PROVE  /\ places = {} => FirstOf(places, otherwise) = otherwise
           /\ places # {} => /\ FirstOf(places, otherwise) \in places
                             /\ \A k \in places : FirstOf(places, otherwise) <= k
<1> QED
    BY LeastIndex DEF FirstOf

LEMMA TwoCharacters ==
    ASSUME src \in Seq(Characters), NEW i \in Nat \ {0}, NEW c, NEW d, StartsAt(i, <<c, d>>)
    PROVE  i + 1 <= Len(src) /\ src[i] = c /\ src[i + 1] = d
<1>1. Len(<<c, d>>) = 2 /\ <<c, d>>[1] = c /\ <<c, d>>[2] = d
    OBVIOUS
<1>2. i + 1 <= Len(src) /\ SubSeq(src, i, i + 1) = <<c, d>>
    BY <1>1 DEF StartsAt
<1>3. \A k \in i..i + 1 : src[k] \in Characters
    BY <1>2
<1>4. \A k \in 1..i + 1 - i + 1 : SubSeq(src, i, i + 1)[k] = src[i + k - 1]
    BY <1>3, SubSeqProperties
<1>5. SubSeq(src, i, i + 1)[1] = src[i] /\ SubSeq(src, i, i + 1)[2] = src[i + 1]
    BY <1>4
<1> QED
    BY <1>1, <1>2, <1>5

(* A blank or a comment is passed over, and it ends the line just if it    *)
(* holds a newline.                                                        *)
LEMMA PassedIs ==
    ASSUME src \in Seq(Characters), NEW i \in 1..Len(src)
    PROVE  /\ Passed(i) \in i..Len(src) + 1
           /\ src[i] \in Spaces => Passed(i) = i + 1
           /\ StartsAt(i, <<"/", "/">>) => /\ Passed(i) = LineEnd(i) /\ LineEnd(i) > i
                                           /\ src[i] \notin Spaces /\ Blanks(i, LineEnd(i))
           /\ StartsAt(i, <<"/", "*">>) => /\ Passed(i) = AfterComment(i) /\ AfterComment(i) > i
                                           /\ src[i] \notin Spaces /\ Blanks(i, i + 2)
           /\ src[i] \notin Spaces /\ ~StartsAt(i, <<"/", "/">>) /\ ~StartsAt(i, <<"/", "*">>) => Passed(i) = i
<1>0. Len(src) \in Nat /\ i \in Nat \ {0}
    OBVIOUS
<1>1. ASSUME StartsAt(i, <<"/", "/">>)
      PROVE  src[i] \notin Spaces /\ ~StartsAt(i, <<"/", "*">>) /\ LineEnd(i) \in i + 1..Len(src) + 1 /\ Blanks(i, LineEnd(i))
  <2>1. src[i] = "/" /\ src[i + 1] = "/"
      BY <1>0, <1>1, TwoCharacters
  <2> DEFINE ends == {k \in i..Len(src) : src[k] = "\n"}
  <2>2. PICK e : e = LineEnd(i)
      OBVIOUS
  <2>3. e = FirstOf(ends, Len(src) + 1) /\ ends \in SUBSET Nat /\ \A k \in ends : k \in i + 1..Len(src)
      BY <1>0, <2>1, <2>2 DEF LineEnd
  <2>4. \A k \in i..Len(src) : k \in ends \/ src[k] # "\n"
      OBVIOUS
  <2> HIDE DEF ends
  <2>5. e \in i + 1..Len(src) + 1 /\ \A k \in ends : e <= k
    <3>1. (ends = {} => e = Len(src) + 1) /\ (ends # {} => e \in ends /\ \A k \in ends : e <= k)
        BY <2>3, FirstIs
    <3>2. CASE ends = {}
      <4>1. e = Len(src) + 1
          BY <3>1, <3>2
      <4> QED
          BY <1>0, <3>2, <4>1
    <3>3. CASE ends # {}
      <4>1. e \in ends /\ \A k \in ends : e <= k
          BY <3>1, <3>3
      <4>2. e \in i + 1..Len(src)
          BY <2>3, <4>1
      <4> QED
          BY <1>0, <4>1, <4>2
    <3> QED
        BY <3>2, <3>3
  <2>6. Blanks(i, e)
    <3>1. \A k \in i..e - 1 : k \in i..Len(src) /\ ~(e <= k)
        BY <1>0, <2>5
    <3> QED
        BY <2>4, <2>5, <3>1 DEF Blanks
  <2>7. src[i] \notin Spaces /\ ~StartsAt(i, <<"/", "*">>)
      BY <1>0, <2>1, TwoCharacters DEF Spaces
  <2>8. LineEnd(i) \in i + 1..Len(src) + 1 /\ Blanks(i, LineEnd(i))
      BY <2>2, <2>5, <2>6
  <2> QED
      BY <2>7, <2>8
<1>2. ASSUME StartsAt(i, <<"/", "*">>)
      PROVE  src[i] \notin Spaces /\ AfterComment(i) \in i + 1..Len(src) + 1 /\ Blanks(i, i + 2)
  <2>1. i + 1 <= Len(src) /\ src[i] = "/" /\ src[i + 1] = "*"
      BY <1>0, <1>2, TwoCharacters
  <2> DEFINE ends == {k \in i + 2..Len(src) : StartsAt(k, <<"*", "/">>)}
  <2>2. ends \in SUBSET Nat /\ \A k \in ends : i + 2 <= k
      BY <1>0
  <2>3. PICK close : close = FirstOf(ends, 0)
      OBVIOUS
  <2>4. AfterComment(i) = IF close # 0 THEN close + 2 ELSE IF i + 2 > Len(src) THEN i + 2 ELSE Len(src)
      BY <2>3 DEF AfterComment
  <2>5. \A k \in ends : k + 1 <= Len(src)
      BY <1>0, TwoCharacters
  <2> HIDE DEF ends
  <2>6. close = 0 \/ (close \in ends)
      BY <2>2, <2>3, FirstIs
  <2>7. AfterComment(i) \in i + 1..Len(src) + 1
    <3>1. close # 0 => close + 2 \in i + 1..Len(src) + 1
      <4> SUFFICES ASSUME close # 0 PROVE close + 2 \in i + 1..Len(src) + 1
          OBVIOUS
      <4>1. close \in Nat /\ i + 2 <= close /\ close + 1 <= Len(src)
          BY <2>2, <2>5, <2>6
      <4> QED
          BY <1>0, <4>1
    <3>2. i + 2 > Len(src) => i + 2 \in i + 1..Len(src) + 1
        BY <1>0, <2>1
    <3>3. ~(i + 2 > Len(src)) => Len(src) \in i + 1..Len(src) + 1
        BY <1>0
    <3> QED
        BY <2>4, <3>1, <3>2, <3>3
  <2>8. Blanks(i, i + 2)
    <3>1. \A k \in i..i + 2 - 1 : k = i \/ k = i + 1
        BY <1>0
    <3> QED
        BY <2>1, <3>1 DEF Blanks
  <2> QED
      BY <2>1, <2>7, <2>8 DEF Spaces
<1>3. CASE src[i] \in Spaces
    BY <1>0, <1>1, <1>2, <1>3 DEF Passed
<1>4. CASE src[i] \notin Spaces /\ StartsAt(i, <<"/", "/">>)
    BY <1>0, <1>1, <1>4 DEF Passed
<1>5. CASE src[i] \notin Spaces /\ ~StartsAt(i, <<"/", "/">>) /\ StartsAt(i, <<"/", "*">>)
    BY <1>0, <1>2, <1>5 DEF Passed
<1>6. CASE src[i] \notin Spaces /\ ~StartsAt(i, <<"/", "/">>) /\ ~StartsAt(i, <<"/", "*">>)
    BY <1>0, <1>6 DEF Passed
<1> QED
    BY <1>3, <1>4, <1>5, <1>6

(* The place of the next character of code is defined, and can be found    *)
(* one blank or comment at a time.                                         *)
Onward(f, i) == IF i > Len(src) \/ Passed(i) = i THEN i ELSE f[Passed(i)]

LEMMA NextIsDefined ==
    ASSUME src \in Seq(Characters)
    PROVE  \E f : f = [i \in 1..Len(src) + 1 |-> Onward(f, i)]
<1> DEFINE N == Len(src) + 1
           Defined(m) == \E f : /\ f = [i \in 1..N |-> f[i]]
                                /\ \A i \in 1..N : i > N - m => f[i] = Onward(f, i)
           Reached == {m \in Nat : Defined(m)}
<1>0. N \in Nat /\ N = Len(src) + 1
    OBVIOUS
<1>1. ASSUME NEW i \in 1..N PROVE i > Len(src) \/ Passed(i) = i \/ (Passed(i) \in 1..N /\ Passed(i) > i)
    BY PassedIs
<1> HIDE DEF N
<1>2. 0 \in Reached
  <2>1. PICK f : f = [i \in 1..N |-> i]
      OBVIOUS
  <2>2. f = [i \in 1..N |-> f[i]] /\ \A i \in 1..N : ~(i > N - 0)
      BY <1>0, <2>1
  <2> QED
      BY <2>2
<1>3. ASSUME NEW m \in Reached PROVE m + 1 \in Reached
  <2>1. m \in Nat
      OBVIOUS
  <2>2. PICK f : f = [i \in 1..N |-> f[i]] /\ \A i \in 1..N : i > N - m => f[i] = Onward(f, i)
      OBVIOUS
  <2>3. PICK g : g = [i \in 1..N |-> IF i = N - m THEN Onward(f, i) ELSE f[i]]
      OBVIOUS
  <2>4. ASSUME NEW i \in 1..N, i > N - (m + 1) PROVE g[i] = Onward(g, i)
    <3>1. Onward(g, i) = Onward(f, i)
      <4>1. i > Len(src) \/ Passed(i) = i \/ (Passed(i) \in 1..N /\ Passed(i) # N - m)
          BY <1>0, <1>1, <2>1, <2>4
      <4>2. Passed(i) \in 1..N /\ Passed(i) # N - m => g[Passed(i)] = f[Passed(i)]
          BY <2>3
      <4> QED
          BY <4>1, <4>2 DEF Onward
    <3>2. g[i] = Onward(f, i)
      <4>1. CASE i = N - m
          BY <2>3, <4>1
      <4>2. CASE i # N - m
        <5>1. g[i] = f[i] /\ i > N - m
            BY <1>0, <2>1, <2>3, <2>4, <4>2
        <5> QED
            BY <2>2, <5>1
      <4> QED
          BY <4>1, <4>2
    <3> QED
        BY <3>1, <3>2
  <2>5. g = [i \in 1..N |-> g[i]]
      BY <2>3
  <2>6. \A i \in 1..N : i > N - (m + 1) => g[i] = Onward(g, i)
      BY <2>4
  <2>7. Defined(m + 1)
      BY <2>5, <2>6
  <2> HIDE DEF Defined
  <2> QED
      BY <2>1, <2>7
<1>4. Reached = Nat
  <2> HIDE DEF Reached
  <2>1. Reached \in SUBSET Nat
      BY DEF Reached
  <2> QED
      BY <1>2, <1>3, <2>1, UpFromZero
<1>5. N \in Reached
    BY <1>0, <1>4
<1>6. PICK f : f = [i \in 1..N |-> f[i]] /\ \A i \in 1..N : i > N - N => f[i] = Onward(f, i)
    BY <1>5
<1>7. \A i \in 1..N : f[i] = Onward(f, i)
    BY <1>0, <1>6
<1>8. f = [i \in 1..N |-> Onward(f, i)]
    BY <1>6, <1>7
<1> QED
    BY <1>0, <1>8

LEMMA NextIs ==
    ASSUME src \in Seq(Characters), NEW i \in 1..Len(src) + 1
    PROVE  NextCode(i) = IF i > Len(src) \/ Passed(i) = i THEN i ELSE NextCode(Passed(i))
<1> DEFINE f == CHOOSE f : f = [k \in 1..Len(src) + 1 |-> Onward(f, k)]
<1>1. f = [k \in 1..Len(src) + 1 |-> Onward(f, k)]
    BY NextIsDefined
<1>2. \A k : NextCode(k) = f[k]
    BY DEF NextCode, Onward
<1> HIDE DEF f
<1>3. f[i] = Onward(f, i)
    BY <1>1
<1> QED
    BY <1>2, <1>3 DEF Onward

LEMMA SameText ==
    ASSUME src' = src
    PROVE  /\ \A i : Begins(i)' <=> Begins(i)
           /\ \A this, next : PairOk(this, next)' <=> PairOk(this, next)
           /\ \A this, i : Ended(this, i)' <=> Ended(this, i)
<1>1. \A i : NextCode(i)' = NextCode(i)
    BY DEF NextCode, Passed, LineEnd, AfterComment, StartsAt
<1> QED
    BY <1>1 DEF Begins, PairOk, Ended, Blanks

LEMMA Appended ==
    ASSUME tokens \in Seq(LexToken), NEW t \in LexToken, tokens' = Append(tokens, t)
    PROVE  /\ tokens' \in Seq(LexToken) /\ tokens' # <<>> /\ Len(tokens) \in Nat
           /\ Len(tokens') = Len(tokens) + 1 /\ tokens'[Len(tokens')] = t
           /\ \A i \in 1..Len(tokens) : tokens'[i] = tokens[i]
    BY AppendProperties, LenProperties, EmptySeq

(* Of the pairs of tokens, only the last is new.                           *)
LEMMA PastNext ==
    ASSUME LexInv, src' = src, NEW t \in LexToken, tokens' = Append(tokens, t),
           tokens = <<>> => t.kind # "semicolon",
           tokens # <<>> => PairOk(Last, t),
           tokens # <<>> /\ Last.kind = "semicolon" =>
                Ended(tokens[Len(tokens) - 1], t.start) /\ CanStart(src[t.start])
    PROVE  PastOk'
<1>1. /\ tokens' \in Seq(LexToken) /\ tokens' # <<>> /\ Len(tokens) \in Nat
      /\ Len(tokens') = Len(tokens) + 1 /\ tokens'[Len(tokens')] = t
      /\ \A i \in 1..Len(tokens) : tokens'[i] = tokens[i]
    BY Appended DEF LexInv, Reading
<1>2. tokens = <<>> <=> Len(tokens) = 0
    BY EmptySeq DEF LexInv, Reading
<1>3. tokens'[1].kind # "semicolon"
  <2>1. CASE tokens = <<>>
      BY <1>1, <1>2, <2>1
  <2>2. CASE tokens # <<>>
    <3>1. 1 \in 1..Len(tokens)
        BY <1>1, <1>2, <2>2
    <3> QED
        BY <1>1, <2>2, <3>1 DEF LexInv, PastOk
  <2> QED
      BY <2>1, <2>2
<1>4. ASSUME NEW i \in 1..Len(tokens') - 1 PROVE PairOk(tokens'[i], tokens'[i + 1])
  <2>1. i \in 1..Len(tokens) /\ tokens'[i] = tokens[i]
      BY <1>1
  <2>2. CASE i = Len(tokens)
    <3>1. tokens'[i + 1] = t /\ tokens # <<>>
        BY <1>1, <1>2, <2>1, <2>2
    <3> QED
        BY <2>1, <2>2, <3>1 DEF Last
  <2>3. CASE i # Len(tokens)
    <3>1. i \in 1..Len(tokens) - 1 /\ tokens'[i + 1] = tokens[i + 1]
        BY <1>1, <2>1, <2>3
    <3> QED
        BY <2>1, <3>1 DEF LexInv, PastOk
  <2> QED
      BY <2>2, <2>3
<1>5. ASSUME NEW i \in 2..Len(tokens') - 1, tokens'[i].kind = "semicolon"
      PROVE  Ended(tokens'[i - 1], tokens'[i + 1].start) /\ CanStart(src[tokens'[i + 1].start])
  <2>1. i \in 1..Len(tokens) /\ tokens'[i] = tokens[i] /\ i - 1 \in 1..Len(tokens) /\ tokens'[i - 1] = tokens[i - 1]
      BY <1>1
  <2>2. CASE i = Len(tokens)
    <3>1. tokens'[i + 1] = t /\ tokens # <<>> /\ Last.kind = "semicolon"
        BY <1>1, <1>2, <1>5, <2>1, <2>2 DEF Last
    <3> QED
        BY <2>1, <2>2, <3>1
  <2>3. CASE i # Len(tokens)
    <3>1. i \in 2..Len(tokens) - 1 /\ tokens'[i + 1] = tokens[i + 1]
        BY <1>1, <2>1, <2>3
    <3> QED
        BY <1>5, <2>1, <3>1 DEF LexInv, PastOk
  <2> QED
      BY <2>2, <2>3
<1> QED
    BY <1>3, <1>4, <1>5 DEF PastOk, PairOk, Ended, Blanks

(* Passing over what is no token.                                          *)
LEMMA Skipping ==
    ASSUME LexInv, src' = src, NEW j \in pos + 1..Len(src) + 1, pos' = j, tokens' = tokens,
           NextCode(j) = NextCode(pos), Blanks(pos, j) \/ ~newline_should_insert_semicolon(j)
    PROVE  LexInv'
<1>1. Reading'
    BY DEF LexInv, Reading
<1>2. PastOk'
    BY DEF LexInv, PastOk, PairOk, Ended, Blanks
<1>3. pos \in Nat /\ pos < j /\ Begins(j) = Begins(pos)
    BY DEF LexInv, Reading, Begins
<1> SUFFICES ASSUME tokens # <<>> PROVE LastOk'
    BY <1>2, <1>1 DEF LexInv
<1>4. tokens \in Seq(LexToken) /\ \A t \in LexToken : t.end \in Int
    BY DEF LexInv, Reading, LexToken
<1>5. Len(tokens) \in Nat \ {0} /\ Len(tokens) \in 1..Len(tokens)
    BY <1>4, EmptySeq
<1>6. Last' = Last /\ Last \in LexToken /\ Last.end \in Int
    BY <1>4, <1>5 DEF Last
<1>7. LastOk' <=> IF Last.kind = "semicolon"
                  THEN Len(tokens) >= 2 /\ Ended(tokens[Len(tokens) - 1], j) /\ Begins(j)
                  ELSE Last.end < j /\ ~(Ended(Last, j) /\ Begins(j))
    BY <1>6, SameText DEF LastOk
<1>8. CASE Last.kind = "semicolon"
  <2>1. Len(tokens) >= 2 /\ Ended(tokens[Len(tokens) - 1], pos) /\ Begins(pos)
      BY <1>8 DEF LexInv, LastOk
  <2>2. tokens[Len(tokens) - 1].end \in Int
      BY <1>4, <1>5, <2>1
  <2>3. Ended(tokens[Len(tokens) - 1], j)
      BY <1>3, <2>1, <2>2 DEF Ended, Blanks
  <2> QED
      BY <1>3, <1>7, <1>8, <2>1, <2>3
<1>9. CASE Last.kind # "semicolon"
  <2>1. Last.end < pos /\ ~(Ended(Last, pos) /\ Begins(pos))
      BY <1>9 DEF LexInv, LastOk
  <2>2. ~(Ended(Last, j) /\ Begins(j))
    <3>1. CASE Blanks(pos, j)
        BY <1>3, <1>6, <2>1, <3>1 DEF Ended, Blanks
    <3>2. CASE ~newline_should_insert_semicolon(j)
        BY <3>2 DEF newline_should_insert_semicolon, Ended, Begins, Last
    <3> QED
        BY <3>1, <3>2
  <2> QED
      BY <1>3, <1>6, <1>7, <1>9, <2>1, <2>2
<1> QED
    BY <1>8, <1>9

(* The end of a line that ends a statement.                                *)
LEMMA Inserting ==
    ASSUME LexInv, src' = src, NEW j \in pos + 1..Len(src) + 1, pos' = j, NEW at \in Int,
           tokens' = Append(tokens, Semicolon(at)), NextCode(j) = NextCode(pos),
           ~Blanks(pos, j), newline_should_insert_semicolon(j)
    PROVE  LexInv'
<1>1. PICK t : t = Semicolon(at)
    OBVIOUS
<1>2. t \in LexToken /\ t.kind = "semicolon"
    BY <1>1 DEF Semicolon, Token, LexToken, Kinds
<1>3. /\ tokens' \in Seq(LexToken) /\ tokens' # <<>> /\ Len(tokens) \in Nat
      /\ Len(tokens') = Len(tokens) + 1 /\ tokens'[Len(tokens')] = t
      /\ \A i \in 1..Len(tokens) : tokens'[i] = tokens[i]
    BY <1>1, <1>2, Appended DEF LexInv, Reading
<1>4. tokens # <<>> /\ token_can_end_statement(Last) /\ Begins(j)
    BY DEF newline_should_insert_semicolon, Begins, Last
<1>5. tokens \in Seq(LexToken) /\ pos \in Nat /\ \A t2 \in LexToken : t2.end \in Int
    BY DEF LexInv, Reading, LexToken
<1>6. Len(tokens) >= 1 /\ Len(tokens) \in 1..Len(tokens)
    BY <1>3, <1>4, <1>5, EmptySeq
<1>7. Len(tokens) >= 1 /\ Last \in LexToken /\ Last.end \in Int /\ pos \in Nat
    BY <1>5, <1>6 DEF Last
<1>8. Last.kind # "semicolon" /\ Last.end < pos
    BY <1>4 DEF token_can_end_statement, LexInv, LastOk
<1>9. Ended(Last, j)
    BY <1>4, <1>7, <1>8 DEF Ended, Blanks
<1>10. PastOk'
  <2>1. PairOk(Last, t)
      BY <1>2, <1>8 DEF PairOk
  <2> QED
      BY <1>1, <1>2, <1>4, <1>8, <2>1, PastNext
<1>11. LastOk'
  <2>1. Len(tokens') - 1 = Len(tokens) /\ tokens'[Len(tokens') - 1] = Last
      BY <1>3, <1>7 DEF Last
  <2>2. Len(tokens') >= 2 /\ Last'.kind = "semicolon"
      BY <1>2, <1>3, <1>7 DEF Last
  <2>3. Ended(tokens'[Len(tokens') - 1], j) /\ Begins(j)
      BY <1>4, <1>9, <2>1
  <2>4. Begins(j)'
      BY <2>3, SameText
  <2> QED
      BY <2>2, <2>3, <2>4 DEF LastOk, Ended, Blanks
<1> QED
    BY <1>3, <1>10, <1>11 DEF LexInv, Reading

(* A token.                                                                *)
LEMMA Pushing ==
    ASSUME LexInv, src' = src, NEW t \in LexToken, tokens' = Append(tokens, t), t.kind # "semicolon",
           t.start = pos, NextCode(pos) = pos, t.end \in pos..Len(src), pos' = t.end + 1
    PROVE  LexInv'
<1>1. /\ tokens' \in Seq(LexToken) /\ tokens' # <<>> /\ Len(tokens) \in Nat
      /\ Len(tokens') = Len(tokens) + 1 /\ tokens'[Len(tokens')] = t
      /\ \A i \in 1..Len(tokens) : tokens'[i] = tokens[i]
    BY Appended DEF LexInv, Reading
<1>2. pos \in Nat /\ pos <= Len(src) /\ Len(src) \in Nat /\ t.end \in Int
    BY DEF LexInv, Reading, LexToken
<1>3. Begins(pos) <=> CanStart(src[pos])
    BY <1>2 DEF Begins
<1>4. PastOk'
  <2>1. ASSUME tokens # <<>> PROVE PairOk(Last, t)
      BY <1>3, <2>1 DEF PairOk, LexInv, LastOk, Ended
  <2>2. ASSUME tokens # <<>>, Last.kind = "semicolon"
        PROVE  Ended(tokens[Len(tokens) - 1], t.start) /\ CanStart(src[t.start])
      BY <1>3, <2>2 DEF LexInv, LastOk
  <2> QED
      BY <2>1, <2>2, PastNext
<1>5. LastOk'
  <2>1. Last' = t /\ t.end < pos'
      BY <1>1, <1>2 DEF Last
  <2>2. ~Ended(t, t.end + 1)
      BY <1>2 DEF Ended, Blanks
  <2> QED
      BY <2>1, <2>2 DEF LastOk, Ended, Blanks
<1>6. Reading'
    BY <1>1, <1>2 DEF LexInv, Reading
<1> QED
    BY <1>4, <1>5, <1>6 DEF LexInv

LEMMA LexStart == LexerInit => LexInv
<1> SUFFICES ASSUME LexerInit PROVE LexInv
    OBVIOUS
<1>1. src \in Seq(Characters) /\ pos = 1 /\ tokens = <<>>
    BY TextsAssumption DEF LexerInit
<1>2. tokens \in Seq(LexToken) /\ Len(tokens) = 0
    BY <1>1, EmptySeq
<1> QED
    BY <1>1, <1>2 DEF LexInv, Reading, PastOk

LEMMA LexStep == LexInv /\ [LexerNext]_lexerVars => LexInv'
<1> SUFFICES ASSUME LexInv, [LexerNext]_lexerVars PROVE LexInv'
    OBVIOUS
<1>1. src \in Seq(Characters) /\ pos \in 1..Len(src) + 1 /\ Len(src) \in Nat
    BY DEF LexInv, Reading
<1>2. ASSUME NEW c, ReadsAt(c)
      PROVE  /\ src' = src /\ src[pos] = c /\ pos \in 1..Len(src)
             /\ NextCode(pos) = IF Passed(pos) = pos THEN pos ELSE NextCode(Passed(pos))
  <2>1. src' = src /\ src[pos] = c /\ pos \in 1..Len(src)
      BY <1>1, <1>2 DEF ReadsAt
  <2> QED
      BY <1>1, <2>1, NextIs
<1>3. CASE SkipBlank
  <2>1. src' = src /\ src[pos] = " " /\ pos \in 1..Len(src) /\ pos' = pos + 1 /\ tokens' = tokens
      BY <1>2, <1>3 DEF SkipBlank, MovesTo
  <2>2. PICK c \in Spaces : c = src[pos] /\ c # "\n"
      BY <2>1, Zenon DEF Spaces
  <2>3. src' = src /\ pos \in 1..Len(src) /\ pos' = pos + 1 /\ tokens' = tokens
      BY <2>1, Zenon
  <2>4. Passed(pos) = pos + 1 /\ pos + 1 # pos
      BY <1>1, <2>2, <2>3, PassedIs
  <2>5. NextCode(pos + 1) = NextCode(pos)
      BY <1>2, <1>3, <2>4 DEF SkipBlank
  <2>6. Blanks(pos, pos + 1)
    <3> SUFFICES ASSUME NEW k \in pos..(pos + 1) - 1 PROVE src[k] # "\n"
        BY DEF Blanks
    <3>1. k = pos
        BY <1>1
    <3> QED
        BY <2>2, <3>1
  <2> QED
      BY <1>1, <2>3, <2>5, <2>6, Skipping
<1>4. CASE Newline
  <2>1. src' = src /\ src[pos] = "\n" /\ pos \in 1..Len(src) /\ pos' = pos + 1
      BY <1>2, <1>4 DEF Newline, MovesTo
  <2>2. src[pos] \in Spaces
      BY <2>1, Zenon DEF Spaces
  <2>3. Passed(pos) = pos + 1 /\ pos + 1 # pos
      BY <1>1, <2>1, <2>2, PassedIs
  <2>4. NextCode(pos + 1) = NextCode(pos) /\ ~Blanks(pos, pos + 1)
    <3>1. pos \in pos..(pos + 1) - 1
        BY <1>1
    <3> QED
        BY <1>2, <1>4, <2>3, <2>1, <3>1 DEF Newline, Blanks
  <2>5. CASE newline_should_insert_semicolon(pos + 1)
    <3>1. tokens' = Append(tokens, Semicolon(pos))
        BY <1>4, <2>5 DEF Newline, Pushes
    <3> QED
        BY <1>1, <2>1, <2>4, <2>5, <3>1, Inserting
  <2>6. CASE ~newline_should_insert_semicolon(pos + 1)
    <3>1. tokens' = tokens
        BY <1>4, <2>6 DEF Newline
    <3> QED
        BY <1>1, <2>1, <2>4, <2>6, <3>1, Skipping
  <2> QED
      BY <2>5, <2>6
<1>5. CASE LineComment
  <2>1. src' = src /\ pos \in 1..Len(src) /\ pos' = LineEnd(pos) /\ tokens' = tokens /\ StartsAt(pos, <<"/", "/">>)
      BY <1>2, <1>5 DEF LineComment, MovesTo
  <2>2. LineEnd(pos) \in pos + 1..Len(src) + 1 /\ Blanks(pos, LineEnd(pos)) /\ Passed(pos) = LineEnd(pos)
      BY <1>1, <2>1, PassedIs
  <2>3. NextCode(LineEnd(pos)) = NextCode(pos)
      BY <1>1, <1>2, <1>5, <2>2 DEF LineComment
  <2> QED
      BY <2>1, <2>2, <2>3, Skipping
<1>6. CASE BlockComment
  <2>1. PICK after : after = AfterComment(pos)
      OBVIOUS
  <2>2. /\ src' = src /\ pos \in 1..Len(src) /\ pos' = after /\ StartsAt(pos, <<"/", "*">>)
        /\ tokens' = IF /\ \E k \in pos + 2 .. after - 1 : src[k] = "\n"
                       /\ newline_should_insert_semicolon(after)
                    THEN Append(tokens, Semicolon(after)) ELSE tokens
      BY <1>2, <1>6, <2>1 DEF BlockComment, MovesTo, Pushes
  <2>3. after \in pos + 1..Len(src) + 1 /\ Blanks(pos, pos + 2) /\ Passed(pos) = after
      BY <1>1, <2>1, <2>2, PassedIs
  <2>4. NextCode(after) = NextCode(pos)
      BY <1>1, <1>2, <1>6, <2>1, <2>3 DEF BlockComment
  <2>5. Blanks(pos, after) <=> ~\E k \in pos + 2 .. after - 1 : src[k] = "\n"
      BY <1>1, <2>3 DEF Blanks
  <2>6. CASE ~Blanks(pos, after) /\ newline_should_insert_semicolon(after)
    <3>1. tokens' = Append(tokens, Semicolon(after)) /\ after \in Int
        BY <1>1, <2>2, <2>3, <2>5, <2>6
    <3> QED
        BY <2>2, <2>3, <2>4, <2>6, <3>1, Inserting
  <2>7. CASE Blanks(pos, after) \/ ~newline_should_insert_semicolon(after)
    <3>1. tokens' = tokens
        BY <2>2, <2>5, <2>7
    <3> QED
        BY <2>2, <2>3, <2>4, <2>7, <3>1, Skipping
  <2> QED
      BY <2>6, <2>7
<1>7. ASSUME NEW kind \in Kinds \ {"semicolon"}, NEW end \in pos..Len(src), src' = src,
             Passed(pos) = pos, tokens' = Append(tokens, Token(kind, pos, end)), pos' = end + 1
      PROVE  LexInv'
  <2>1. PICK t : t = Token(kind, pos, end)
      OBVIOUS
  <2>2. t \in LexToken /\ t.start = pos /\ t.end = end /\ t.kind # "semicolon"
      BY <1>1, <2>1 DEF Token, LexToken
  <2>3. NextCode(pos) = pos
      BY <1>1, <1>7, NextIs
  <2> QED
      BY <1>7, <2>1, <2>2, <2>3, Pushing
<1>8. CASE StringLiteral
  <2> DEFINE ends == {k \in pos + 1 .. Len(src) : src[k] = Quote}
  <2>1. PICK close : close = FirstOf(ends, Len(src))
      OBVIOUS
  <2>2. src' = src /\ src[pos] = Quote /\ pos \in 1..Len(src) /\ pos' = close + 1
        /\ tokens' = Append(tokens, Token("string", pos, close))
      BY <1>2, <1>8, <2>1 DEF StringLiteral, MovesTo, Pushes
  <2>3. ends \in SUBSET Nat /\ \A k \in ends : k \in pos..Len(src)
      BY <1>1
  <2> HIDE DEF ends
  <2>4. close = Len(src) \/ close \in ends
      BY <2>1, <2>3, FirstIs
  <2>5. close \in pos..Len(src)
    <3>1. CASE close = Len(src)
        BY <1>1, <2>2, <3>1
    <3>2. CASE close \in ends
        BY <2>3, <3>2
    <3> QED
        BY <2>4, <3>1, <3>2
  <2>6. Passed(pos) = pos
    <3>1. src[pos] \notin Spaces /\ src[pos] # "/"
        BY <2>2, Zenon DEF Spaces, Quote
    <3> QED
        BY <1>1, <2>2, <3>1, PassedIs, TwoCharacters
  <2> QED
      BY <1>7, <2>2, <2>5, <2>6 DEF Kinds
<1>9. CASE Word
  <2> DEFINE ends == {k \in pos .. Len(src) : src[k] \notin Letters}
  <2>1. PICK past : past = FirstOf(ends, Len(src) + 1)
      OBVIOUS
  <2>2. PICK c \in Letters : ReadsAt(c)
      BY <1>9 DEF Word
  <2>3. src' = src /\ src[pos] \in Letters /\ pos \in 1..Len(src)
      BY <1>2, <2>2
  <2>4. PICK kind \in {"keyword", "name"} :
            tokens' = Append(tokens, Token(kind, pos, past - 1)) /\ pos' = past - 1 + 1
      BY <1>9, <2>1 DEF Word, MovesTo, Pushes
  <2>5. ends \in SUBSET Nat /\ \A k \in ends : k \in pos + 1..Len(src)
      BY <1>1, <2>3
  <2> HIDE DEF ends
  <2>6. past = Len(src) + 1 \/ past \in ends
      BY <2>1, <2>5, FirstIs
  <2>7. past - 1 \in pos..Len(src)
    <3>1. CASE past = Len(src) + 1
        BY <1>1, <2>3, <3>1
    <3>2. CASE past \in ends
      <4>1. past \in pos + 1..Len(src)
          BY <2>5, <3>2
      <4> QED
          BY <1>1, <4>1
    <3> QED
        BY <2>6, <3>1, <3>2
  <2>8. Passed(pos) = pos
    <3>1. src[pos] \notin Spaces /\ src[pos] # "/"
        BY <2>3 DEF Spaces, Letters
    <3> QED
        BY <1>1, <2>3, <3>1, PassedIs, TwoCharacters
  <2>9. kind \in Kinds \ {"semicolon"}
      BY DEF Kinds
  <2> QED
      BY <1>7, <2>3, <2>4, <2>7, <2>8, <2>9
<1>10. CASE Symbol
  <2>1. PICK end : end = IF StartsAt(pos, <<"*", "*">>) THEN pos + 1 ELSE pos
      OBVIOUS
  <2>2. PICK c \in Symbols : ReadsAt(c)
      BY <1>10 DEF Symbol
  <2>3. src' = src /\ src[pos] \in Symbols /\ pos \in 1..Len(src)
      BY <1>2, <2>2
  <2>4. PICK kind \in {"close", "symbol"} :
            tokens' = Append(tokens, Token(kind, pos, end)) /\ pos' = end + 1
      BY <1>10, <2>1 DEF Symbol, MovesTo, Pushes
  <2>5. end \in pos..Len(src)
      BY <1>1, <2>1, <2>3, TwoCharacters
  <2>6. Passed(pos) = pos
    <3>1. src[pos] \notin Spaces
        BY <2>3 DEF Spaces, Symbols
    <3> QED
        BY <1>1, <1>10, <2>3, <3>1, PassedIs DEF Symbol
  <2>7. kind \in Kinds \ {"semicolon"}
      BY DEF Kinds
  <2> QED
      BY <1>7, <2>3, <2>4, <2>5, <2>6, <2>7
<1>11. CASE UNCHANGED lexerVars
  <2>1. src' = src /\ pos' = pos /\ tokens' = tokens
      BY <1>11 DEF lexerVars
  <2> QED
      BY <2>1, SameText DEF LexInv, Reading, PastOk, LastOk, Last
<1> QED
    BY <1>3, <1>4, <1>5, <1>6, <1>8, <1>9, <1>10, <1>11 DEF LexerNext

LEMMA LinesOfTheTokens == LexInv => OneSemicolonALine
<1> SUFFICES ASSUME LexInv, pos > Len(src) PROVE OneSemicolonALine
    BY DEF OneSemicolonALine
<1>1. src \in Seq(Characters) /\ pos \in 1..Len(src) + 1 /\ Len(src) \in Nat
    BY DEF LexInv, Reading
<1>2. NextCode(pos) = pos
    BY <1>1, NextIs
<1>3. tokens # <<>> => tokens[Len(tokens)].kind # "semicolon"
    BY <1>1, <1>2 DEF Begins, LexInv, LastOk, Last
<1>4. ASSUME NEW i \in 1..Len(tokens) - 1
      PROVE  LET this == tokens[i]
                 next == tokens[i + 1]
                 between == {src[k] : k \in this.end + 1 .. next.start - 1}
             IN  IF next.kind = "semicolon" THEN this.kind # "semicolon"
                 ELSE this.kind # "semicolon" =>
                        ~("\n" \in between /\ token_can_end_statement(this) /\ CanStart(src[next.start]))
  <2>1. PairOk(tokens[i], tokens[i + 1])
      BY DEF LexInv, PastOk
  <2> QED
      BY <2>1 DEF PairOk, Blanks
<1>5. ASSUME NEW i \in 2..Len(tokens) - 1, tokens[i].kind = "semicolon"
      PROVE  /\ \E k \in tokens[i - 1].end + 1 .. tokens[i + 1].start - 1 : src[k] = "\n"
             /\ token_can_end_statement(tokens[i - 1]) /\ CanStart(src[tokens[i + 1].start])
    BY <1>5 DEF LexInv, PastOk, Ended, Blanks
<1> QED
    BY <1>3, <1>4, <1>5 DEF OneSemicolonALine

(* However blanks, newlines and comments lie between two tokens, there is  *)
(* one semicolon between them or none, as the two and the end of a line    *)
(* between them ask for (src/src/lexer.vix, newline_should_insert_         *)
(* semicolon; src/src/helper.c, vix_lexer_next_non_space_char).            *)
THEOREM LinesEndOnce == LexerSpec => []OneSemicolonALine
    BY LexStart, LexStep, LinesOfTheTokens, PTL DEF LexerSpec
=============================================================================
