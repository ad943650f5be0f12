----------------------------- MODULE LoaderProofs -----------------------------
(***************************************************************************)
(* Of the module loader, for any file system and nesting: it loads what is *)
(* declared and refuses what is not there, parents and children agree on   *)
(* each other, and its test for cycles never succeeds.  Of the merge, for  *)
(* any files the parser makes something of: what modules share is declared *)
(* once, and every function and variable keeps its meaning.                *)
(***************************************************************************)
EXTENDS AstMerge, FiniteSetTheorems, WellFoundedInduction, TLAPS

Module == [qname : Seq(Declaration), source_path : DOMAIN tree, parent_id : Nat, child_ids : Seq(Nat)]

Scans == [parent : Nat, at : Nat \ {0}]

Typed ==
    /\ tree \in Trees
    /\ modules \in Seq(Module)
    /\ scans \in Seq(Scans)
    /\ visit_stack \subseteq Seq(Declaration)
    /\ loading \in {"start", "scanning", "done"}

(* Every module but the root is named by its parent's name and a           *)
(* declaration.                                                            *)
NamesExtend ==
    /\ modules # <<>> => modules[1].qname = Root
    /\ \A i \in DOMAIN modules \ {1} :
          /\ modules[i].parent_id \in 1..i - 1
          /\ \E d \in Declaration : modules[i].qname = Append(modules[modules[i].parent_id].qname, d)
ChildrenOwned ==
    \A i \in DOMAIN modules : \A k \in DOMAIN modules[i].child_ids :
        /\ modules[i].child_ids[k] \in DOMAIN modules
        /\ modules[modules[i].child_ids[k]].parent_id = i
ParentsList == \A i \in DOMAIN modules \ {1} : Lists(modules[i].parent_id, i)

(* Scans nest as names do, and the stack holds the names of the scans: a   *)
(* name of every length up to theirs, each but once.                       *)
ScansNest ==
    /\ loading = "start" => modules = <<>> /\ scans = <<>> /\ visit_stack = {}
    /\ loading = "scanning" => scans # <<>>
    /\ \A i \in DOMAIN scans :
          scans[i].parent \in DOMAIN modules /\ Len(modules[scans[i].parent].qname) = i - 1
    /\ \A q \in visit_stack :
          Len(q) + 1 \in DOMAIN scans /\ q = modules[scans[Len(q) + 1].parent].qname

Inv == Typed /\ NamesExtend /\ OneModuleAName /\ ChildrenOwned /\ ParentsList /\ ScansNest

(* No declaration was refused for a cycle.                                 *)
NoneCircular == \A i \in DOMAIN errors : errors[i].what # "circular"

-----------------------------------------------------------------------------
(* What a scan that is at a declaration sees.                              *)
LEMMA AtOne ==
    ASSUME Inv, AtDeclaration
    PROVE  /\ Len(scans) \in DOMAIN scans
           /\ Scanned.parent \in DOMAIN modules /\ Parent \in Module
           /\ Current \in Declaration
           /\ QName \in Seq(Declaration) /\ Len(QName) = Len(scans)
<1>1. scans # <<>> /\ scans \in Seq(Scans)
  BY DEF Inv, Typed, ScansNest, AtDeclaration
<1>2. Len(scans) \in DOMAIN scans  BY <1>1
<1>3. Scanned.parent \in DOMAIN modules /\ Len(Parent.qname) = Len(scans) - 1
  BY <1>2 DEF Inv, ScansNest, Scanned, Parent
<1>4. Parent \in Module  BY <1>3 DEF Inv, Typed, Parent
<1>5. Declarations \in Seq(Declaration)
  <2>1. Parent.source_path \in DOMAIN tree  BY <1>4 DEF Module
  <2> QED  BY <2>1, TreesAssumption DEF Declarations, Inv, Typed
<1>6. Scanned.at \in Nat \ {0}
  <2>1. scans[Len(scans)] \in Scans  BY <1>1, <1>2
  <2> QED  BY <2>1 DEF Scanned, Scans
<1>7. Current \in Declaration  BY <1>5, <1>6 DEF Current, AtDeclaration
<1>8. Parent.qname \in Seq(Declaration)  BY <1>4 DEF Module
<1>9. QName \in Seq(Declaration) /\ Len(QName) = Len(scans)
  BY <1>1, <1>3, <1>7, <1>8 DEF QName
<1> QED  BY <1>2, <1>3, <1>4, <1>7, <1>9

(* A name that is about to be loaded is longer than any on the stack.      *)
LEMMA NotOnStack ==
    ASSUME Inv, AtDeclaration
    PROVE  ~ml_on_stack(QName)
<1>1. Len(QName) = Len(scans) /\ scans \in Seq(Scans)
  BY AtOne DEF Inv, Typed
<1>2. \A q \in visit_stack : Len(q) + 1 \in DOMAIN scans /\ q \in Seq(Declaration)
  BY DEF Inv, Typed, ScansNest
<1> QED  BY <1>1, <1>2 DEF ml_on_stack

(* A record with another list of children.                                 *)
LEMMA OtherChildren ==
    ASSUME NEW Q, NEW F, NEW P, NEW C, NEW cs \in C,
           NEW m \in [qname : Q, source_path : F, parent_id : P, child_ids : C]
    PROVE  LET n == [m EXCEPT !.child_ids = cs]
           IN  /\ n \in [qname : Q, source_path : F, parent_id : P, child_ids : C]
               /\ n.qname = m.qname /\ n.source_path = m.source_path /\ n.parent_id = m.parent_id
               /\ n.child_ids = cs
OBVIOUS

(* A list with an element more.                                            *)
LEMMA Lengthened ==
    ASSUME NEW D, NEW s \in Seq(D), NEW d \in D
    PROVE  /\ DOMAIN s = 1..Len(s) /\ DOMAIN Append(s, d) = 1..Len(s) + 1 /\ Len(s) \in Nat
           /\ Len(Append(s, d)) = Len(s) + 1
           /\ \A k \in 1..Len(s) : Append(s, d)[k] = s[k]
           /\ Append(s, d)[Len(s) + 1] = d
OBVIOUS

(* Two extensions of names are the same only if the names are.             *)
LEMMA AppendInjective ==
    ASSUME NEW D, NEW s \in Seq(D), NEW t \in Seq(D), NEW d \in D, NEW e \in D,
           Append(s, d) = Append(t, e)
    PROVE  s = t
<1>1. Len(s) = Len(t)
  <2>1. Len(Append(s, d)) = Len(s) + 1 /\ Len(Append(t, e)) = Len(t) + 1  OBVIOUS
  <2>2. Len(s) \in Nat /\ Len(t) \in Nat  OBVIOUS
  <2> QED  BY <2>1, <2>2
<1>2. \A i \in 1..Len(s) : s[i] = t[i]
  <2> TAKE i \in 1..Len(s)
  <2>1. Append(s, d)[i] = s[i] /\ Append(t, e)[i] = t[i]  BY <1>1
  <2> QED  BY <2>1
<1> QED  BY <1>1, <1>2

(* Adoption changes the list of children of one module, by one.            *)
LEMMA Adopted ==
    ASSUME Inv, AtDeclaration, NEW c \in Nat
    PROVE  /\ Adopt(c) \in Seq(Module) /\ Len(Adopt(c)) = Len(modules)
           /\ DOMAIN Adopt(c) = DOMAIN modules
           /\ \A i \in DOMAIN modules :
                 /\ Adopt(c)[i].qname = modules[i].qname
                 /\ Adopt(c)[i].parent_id = modules[i].parent_id
                 /\ Adopt(c)[i].source_path = modules[i].source_path
                 /\ i # Scanned.parent => Adopt(c)[i].child_ids = modules[i].child_ids
           /\ Adopt(c)[Scanned.parent].child_ids = Append(modules[Scanned.parent].child_ids, c)
<1> DEFINE p == Scanned.parent
           m == [modules[p] EXCEPT !.child_ids = Append(@, c)]
<1>1. p \in DOMAIN modules /\ modules \in Seq(Module)  BY AtOne DEF Inv, Typed
<1>2. modules[p] \in Module  BY <1>1
<1>3. m \in Module /\ m.qname = modules[p].qname /\ m.parent_id = modules[p].parent_id
      /\ m.source_path = modules[p].source_path /\ m.child_ids = Append(modules[p].child_ids, c)
  <2>1. Append(modules[p].child_ids, c) \in Seq(Nat)  BY <1>2 DEF Module
  <2> DEFINE cs == Append(modules[p].child_ids, c)
  <2>2. m = [modules[p] EXCEPT !.child_ids = cs]  OBVIOUS
  <2> QED  BY <2>1, <2>2, <1>2, OtherChildren DEF Module
<1>4. Adopt(c) = [modules EXCEPT ![p] = m]  BY DEF Adopt
<1>5. Adopt(c) \in Seq(Module) /\ Len(Adopt(c)) = Len(modules) /\ DOMAIN Adopt(c) = DOMAIN modules
  <2> HIDE DEF m, p
  <2> QED  BY <1>1, <1>3, <1>4
<1>6. \A i \in DOMAIN modules : Adopt(c)[i] = IF i = p THEN m ELSE modules[i]
  <2> HIDE DEF m, p
  <2> QED  BY <1>1, <1>4
<1> HIDE DEF m
<1> QED  BY <1>1, <1>3, <1>5, <1>6

-----------------------------------------------------------------------------
(* The innermost scan moves on.                                            *)
LEMMA MovedOn ==
    ASSUME Inv, AtDeclaration
    PROVE  /\ Onward \in Seq(Scans) /\ DOMAIN Onward = DOMAIN scans /\ Len(Onward) = Len(scans)
           /\ \A i \in DOMAIN scans : Onward[i].parent = scans[i].parent
           /\ \A i \in DOMAIN scans : Onward[i].at = IF i = Len(scans) THEN scans[i].at + 1 ELSE scans[i].at
<1>1. scans \in Seq(Scans) /\ Len(scans) \in DOMAIN scans  BY AtOne DEF Inv, Typed
<1> DEFINE s == scans[Len(scans)]
           t == [s EXCEPT !.at = @ + 1]
<1>2. s \in Scans  BY <1>1
<1>3. t \in Scans /\ t.parent = s.parent /\ t.at = s.at + 1  BY <1>2 DEF Scans
<1>4. Onward = [scans EXCEPT ![Len(scans)] = t]  BY DEF Onward
<1> HIDE DEF s, t
<1>5. Onward \in Seq(Scans) /\ DOMAIN Onward = DOMAIN scans /\ Len(Onward) = Len(scans)
  BY <1>1, <1>3, <1>4
<1>6. \A i \in DOMAIN scans : Onward[i] = IF i = Len(scans) THEN t ELSE scans[i]  BY <1>1, <1>4
<1> QED  BY <1>1, <1>3, <1>5, <1>6 DEF s

(* A module is refused, or only the scans move on.                         *)
LEMMA RefuseKeeps == ASSUME Inv, Refuse PROVE Inv'
<1>1. AtDeclaration /\ scans' = Onward /\ UNCHANGED <<tree, modules, visit_stack, loading>>
  BY DEF Refuse
<1>2. Typed'  BY <1>1, MovedOn DEF Inv, Typed, Module, Scans
<1>3. (NamesExtend /\ OneModuleAName /\ ChildrenOwned /\ ParentsList)'
  BY <1>1 DEF Inv, NamesExtend, OneModuleAName, ChildrenOwned, ParentsList, Lists
<1>4. ScansNest'
  <2>1. scans' # <<>> /\ loading' = "scanning"
    BY <1>1, MovedOn, AtOne DEF AtDeclaration
  <2> QED  BY <1>1, <2>1, MovedOn DEF Inv, ScansNest
<1> QED  BY <1>2, <1>3, <1>4 DEF Inv

(* A module that is there already was loaded by the same parent: its name  *)
(* says so.                                                                *)
LEMMA FindLoadedKeeps == ASSUME Inv, FindLoaded PROVE Inv'
<1>1. AtDeclaration /\ scans' = Onward /\ UNCHANGED <<tree, errors, visit_stack, loading>>
  BY DEF FindLoaded
<1>2. PICK c \in ml_find_by_qname(QName) : modules' = Adopt(c)  BY DEF FindLoaded
<1> DEFINE p == Scanned.parent
<1>3. c \in DOMAIN modules /\ modules[c].qname = QName  BY <1>2 DEF ml_find_by_qname
<1>4. modules \in Seq(Module)  BY DEF Inv, Typed
<1>5. c \in Nat  BY <1>3, <1>4
<1>6. p \in DOMAIN modules /\ Current \in Declaration /\ Len(scans) \in DOMAIN scans  BY <1>1, AtOne
<1>7. \A i \in DOMAIN modules : modules[i].qname \in Seq(Declaration) /\ modules[i].child_ids \in Seq(Nat)
  <2>1. \A i \in DOMAIN modules : modules[i] \in Module  BY <1>4
  <2> QED  BY <2>1 DEF Module
<1>8. c # 1 /\ modules[c].parent_id = p
  <2>1. QName = Append(modules[p].qname, Current)  BY DEF QName, Parent
  <2>2. modules[p].qname \in Seq(Declaration)  BY <1>6, <1>7
  <2>3. QName # <<>>  BY <2>1, <2>2, <1>6
  <2>4. c # 1  BY <1>3, <1>4, <2>3 DEF Inv, NamesExtend, Root
  <2>5. PICK d \in Declaration : modules[c].qname = Append(modules[modules[c].parent_id].qname, d)
    BY <1>3, <2>4 DEF Inv, NamesExtend
  <2>6. modules[c].parent_id \in DOMAIN modules
    BY <1>3, <1>4, <2>4 DEF Inv, NamesExtend
  <2>7. modules[modules[c].parent_id].qname \in Seq(Declaration)  BY <2>6, <1>7
  <2>8. modules[modules[c].parent_id].qname = modules[p].qname
    <3>1. Append(modules[modules[c].parent_id].qname, d) = Append(modules[p].qname, Current)
      BY <1>3, <2>1, <2>5
    <3> DEFINE s == modules[modules[c].parent_id].qname
               t == modules[p].qname
    <3>2. s \in Seq(Declaration) /\ t \in Seq(Declaration) /\ d \in Declaration /\ Current \in Declaration
      BY <1>6, <2>2, <2>5, <2>7
    <3> HIDE DEF s, t
    <3>3. Append(s, d) = Append(t, Current)  BY <3>1 DEF s, t
    <3>4. s = t  BY <3>2, <3>3, AppendInjective
    <3> QED  BY <3>4 DEF s, t
  <2> QED  BY <2>4, <2>6, <2>8, <1>6 DEF Inv, OneModuleAName
<1>9. /\ modules' \in Seq(Module) /\ DOMAIN modules' = DOMAIN modules
      /\ \A i \in DOMAIN modules :
            /\ modules'[i].qname = modules[i].qname /\ modules'[i].parent_id = modules[i].parent_id
            /\ i # p => modules'[i].child_ids = modules[i].child_ids
      /\ modules'[p].child_ids = Append(modules[p].child_ids, c)
  BY <1>1, <1>2, <1>5, Adopted
<1>10. \A i \in DOMAIN modules : modules[i].child_ids \in Seq(Nat)  BY <1>7
<1> HIDE DEF p
<1>11. Typed'  BY <1>1, <1>9, MovedOn DEF Inv, Typed, Module, Scans
<1>12. NamesExtend'
  <2>1. \A i \in DOMAIN modules \ {1} : modules[i].parent_id \in DOMAIN modules
    BY <1>4 DEF Inv, NamesExtend
  <2>2. modules # <<>> /\ 1 \in DOMAIN modules  BY <1>3, <1>4
  <2>3. modules'[1].qname = Root  BY <1>9, <2>2 DEF Inv, NamesExtend
  <2>4. ASSUME NEW i \in DOMAIN modules \ {1}
        PROVE  /\ modules'[i].parent_id \in 1..i - 1
               /\ \E d \in Declaration : modules'[i].qname = Append(modules'[modules'[i].parent_id].qname, d)
    <3>1. /\ modules[i].parent_id \in 1..i - 1
          /\ \E d \in Declaration : modules[i].qname = Append(modules[modules[i].parent_id].qname, d)
      BY DEF Inv, NamesExtend
    <3>2. modules'[i].parent_id = modules[i].parent_id /\ modules'[i].qname = modules[i].qname
      BY <1>9
    <3>3. modules'[modules[i].parent_id].qname = modules[modules[i].parent_id].qname  BY <1>9, <2>1
    <3> QED  BY <3>1, <3>2, <3>3
  <2> QED  BY <1>9, <2>3, <2>4 DEF NamesExtend
<1>13. OneModuleAName'  BY <1>9 DEF Inv, OneModuleAName
<1>14. ChildrenOwned'
  <2> SUFFICES ASSUME NEW i \in DOMAIN modules, NEW k \in DOMAIN modules'[i].child_ids
               PROVE  /\ modules'[i].child_ids[k] \in DOMAIN modules
                      /\ modules'[modules'[i].child_ids[k]].parent_id = i
    BY <1>9 DEF ChildrenOwned
  <2>1. CASE i = p /\ k = Len(modules[p].child_ids) + 1
    <3>1. modules'[i].child_ids[k] = c  BY <2>1, <1>9, <1>10, <1>6 DEF p
    <3> QED  BY <3>1, <2>1, <1>3, <1>8, <1>9 DEF p
  <2>2. CASE ~(i = p /\ k = Len(modules[p].child_ids) + 1)
    <3>1. k \in DOMAIN modules[i].child_ids /\ modules'[i].child_ids[k] = modules[i].child_ids[k]
      <4>1. CASE i = p  BY <4>1, <2>2, <1>5, <1>9, <1>10, Lengthened
      <4>2. CASE i # p  BY <4>2, <1>9
      <4> QED  BY <4>1, <4>2
    <3> QED  BY <3>1, <1>9 DEF Inv, ChildrenOwned
  <2> QED  BY <2>1, <2>2
<1>15. ParentsList'
  <2>1. \A i \in DOMAIN modules, k \in Nat :
            k \in DOMAIN modules[i].child_ids =>
                k \in DOMAIN modules'[i].child_ids /\ modules'[i].child_ids[k] = modules[i].child_ids[k]
    <3> TAKE i \in DOMAIN modules, k \in Nat
    <3> HAVE k \in DOMAIN modules[i].child_ids
    <3>1. CASE i = p  BY <3>1, <1>5, <1>9, <1>10, Lengthened
    <3>2. CASE i # p  BY <3>2, <1>9
    <3> QED  BY <3>1, <3>2
  <2>2. \A i \in DOMAIN modules \ {1} : modules[i].parent_id \in DOMAIN modules
    BY <1>4 DEF Inv, NamesExtend
  <2>3. \A i \in DOMAIN modules : \A ch : Lists(i, ch) => Lists(i, ch)'
    BY <2>1, <1>10 DEF Lists
  <2> QED  BY <2>2, <2>3, <1>9 DEF Inv, ParentsList
<1>16. ScansNest'
  <2>1. scans' # <<>> /\ loading' = "scanning"
    BY <1>1, <1>6, MovedOn DEF AtDeclaration
  <2>2. \A i \in DOMAIN scans : scans[i].parent \in DOMAIN modules  BY DEF Inv, ScansNest
  <2>3. /\ scans' = Onward /\ DOMAIN scans' = DOMAIN scans
        /\ \A i \in DOMAIN scans : scans'[i].parent = scans[i].parent
    BY <1>1, MovedOn
  <2>4. \A i \in DOMAIN scans' :
            scans'[i].parent \in DOMAIN modules' /\ Len(modules'[scans'[i].parent].qname) = i - 1
    BY <1>9, <2>2, <2>3 DEF Inv, ScansNest
  <2>5. \A q \in visit_stack' :
            Len(q) + 1 \in DOMAIN scans' /\ q = modules'[scans'[Len(q) + 1].parent].qname
    BY <1>1, <1>9, <2>2, <2>3 DEF Inv, ScansNest
  <2> QED  BY <2>1, <2>4, <2>5 DEF ScansNest
<1> QED  BY <1>11, <1>12, <1>13, <1>14, <1>15, <1>16 DEF Inv

(* A new module is its parent's last child, and the innermost scan's.      *)
LEMMA LoadKeeps == ASSUME Inv, Load PROVE Inv'
<1>1. PICK n \in Nat : n = Len(modules)  BY DEF Inv, Typed
<1>2. modules \in Seq(Module) /\ n \in Nat /\ n + 1 \in Nat /\ DOMAIN modules = 1..n
  BY <1>1 DEF Inv, Typed
<1>3. PICK p \in 1..n : p = Scanned.parent  BY <1>2, AtOne DEF Load
<1> DEFINE M == Adopt(n + 1)
<1>4. /\ AtDeclaration /\ ml_find_by_qname(QName) = {}
      /\ visit_stack' = visit_stack \cup {QName}
      /\ scans' = Append(Onward, Scan(n + 1))
      /\ UNCHANGED <<tree, errors, loading>>
  BY <1>1 DEF Load
<1>5. PICK file \in Candidates : modules' = Append(M, module_new(QName, file, p))
  BY <1>1, <1>3 DEF Load
<1> DEFINE new == module_new(QName, file, p)
<1>6. /\ p \in DOMAIN modules /\ Current \in Declaration /\ Len(scans) \in DOMAIN scans
      /\ QName \in Seq(Declaration) /\ Len(QName) = Len(scans) /\ QName = Append(modules[p].qname, Current)
  BY <1>4, <1>2, <1>3, AtOne DEF QName, Parent
<1>7. /\ M \in Seq(Module) /\ DOMAIN M = 1..n /\ Len(M) = n
      /\ \A i \in 1..n : /\ M[i].qname = modules[i].qname /\ M[i].parent_id = modules[i].parent_id
                         /\ i # p => M[i].child_ids = modules[i].child_ids
      /\ M[p].child_ids = Append(modules[p].child_ids, n + 1)
  BY <1>1, <1>4, <1>2, <1>3, Adopted
<1>8. /\ new \in Module /\ new.qname = QName /\ new.parent_id = p /\ new.child_ids = <<>>
  <2>1. file \in DOMAIN tree  BY <1>5 DEF Candidates, Located
  <2>2. p \in Nat  BY <1>2, <1>6
  <2>3. <<>> \in Seq(Nat)  OBVIOUS
  <2>4. new = [qname |-> QName, source_path |-> file, parent_id |-> p, child_ids |-> <<>>]  BY DEF module_new
  <2> HIDE DEF new
  <2> QED  BY <2>1, <2>2, <2>3, <2>4, <1>6 DEF Module
<1>9. \A i \in DOMAIN modules : modules[i].child_ids \in Seq(Nat) /\ modules[i].qname \in Seq(Declaration)
  <2>1. \A i \in DOMAIN modules : modules[i] \in Module  BY <1>2
  <2> QED  BY <2>1 DEF Module
<1> HIDE DEF M, new
<1>10. /\ modules' \in Seq(Module) /\ DOMAIN modules' = 1..n + 1 /\ Len(modules') = n + 1
       /\ modules'[n + 1] = new /\ \A i \in 1..n : modules'[i] = M[i]
  <2>1. modules' = Append(M, new)  BY <1>5 DEF new, M
  <2> QED  BY <2>1, <1>2, <1>7, <1>8
<1>11. \A i \in 1..n : /\ modules'[i].qname = modules[i].qname /\ modules'[i].parent_id = modules[i].parent_id
                       /\ i # p => modules'[i].child_ids = modules[i].child_ids
  BY <1>7, <1>10
<1>12. modules'[p].child_ids = Append(modules[p].child_ids, n + 1)  BY <1>2, <1>6, <1>7, <1>10
<1>13. modules'[n + 1].qname = QName /\ modules'[n + 1].parent_id = p /\ modules'[n + 1].child_ids = <<>>
  BY <1>8, <1>10
<1>14. \A i \in 1..n, k \in Nat :
          k \in DOMAIN modules[i].child_ids =>
              k \in DOMAIN modules'[i].child_ids /\ modules'[i].child_ids[k] = modules[i].child_ids[k]
  <2> TAKE i \in 1..n, k \in Nat
  <2> HAVE k \in DOMAIN modules[i].child_ids
  <2>1. CASE i = p  BY <2>1, <1>2, <1>9, <1>12, Lengthened
  <2>2. CASE i # p  BY <2>2, <1>11
  <2> QED  BY <2>1, <2>2
<1>15. Typed'
  <2>1. Onward \in Seq(Scans)  BY <1>4, MovedOn
  <2>2. Scan(n + 1) \in Scans  BY <1>2 DEF Scan, Scans
  <2>3. scans' \in Seq(Scans)  BY <1>4, <2>1, <2>2
  <2> QED  BY <1>4, <1>6, <1>10, <2>3 DEF Inv, Typed, Module, Scans
<1>16. NamesExtend'
  <2>1. modules'[1].qname = Root  BY <1>2, <1>6, <1>11 DEF Inv, NamesExtend
  <2>2. ASSUME NEW i \in 1..n + 1, i # 1
        PROVE  /\ modules'[i].parent_id \in 1..i - 1
               /\ \E d \in Declaration : modules'[i].qname = Append(modules'[modules'[i].parent_id].qname, d)
    <3>1. CASE i = n + 1
      <4>1. modules'[i].parent_id = p /\ modules'[i].qname = QName  BY <3>1, <1>13
      <4>2. modules'[p].qname = modules[p].qname  BY <1>11
      <4>3. p \in 1..i - 1  BY <3>1, <1>2
      <4>4. QName = Append(modules'[p].qname, Current) /\ Current \in Declaration  BY <4>2, <1>6
      <4> QED  BY <4>1, <4>3, <4>4
    <3>2. CASE i # n + 1
      <4>1. i \in DOMAIN modules \ {1} /\ i \in 1..n  BY <2>2, <3>2, <1>2
      <4>2. /\ modules[i].parent_id \in 1..i - 1
            /\ \E d \in Declaration : modules[i].qname = Append(modules[modules[i].parent_id].qname, d)
        BY <4>1 DEF Inv, NamesExtend
      <4>3. modules[i].parent_id \in 1..n  BY <4>1, <4>2, <1>2
      <4> QED  BY <4>1, <4>2, <4>3, <1>11
    <3> QED  BY <3>1, <3>2
  <2> QED  BY <1>2, <1>10, <2>1, <2>2 DEF NamesExtend
<1>17. OneModuleAName'
  <2>1. \A i \in 1..n : modules[i].qname # QName  BY <1>4, <1>2 DEF ml_find_by_qname
  <2>2. \A i, j \in 1..n : modules[i].qname = modules[j].qname => i = j  BY <1>2 DEF Inv, OneModuleAName
  <2> QED  BY <1>2, <1>10, <1>11, <1>13, <2>1, <2>2 DEF OneModuleAName
<1>18. ChildrenOwned'
  <2> SUFFICES ASSUME NEW i \in 1..n + 1, NEW k \in DOMAIN modules'[i].child_ids
               PROVE  /\ modules'[i].child_ids[k] \in 1..n + 1
                      /\ modules'[modules'[i].child_ids[k]].parent_id = i
    BY <1>10 DEF ChildrenOwned
  <2>1. i \in 1..n
    <3>1. DOMAIN modules'[n + 1].child_ids = {}  BY <1>13
    <3> QED  BY <3>1, <1>2
  <2>2. CASE i = p /\ k = Len(modules[p].child_ids) + 1
    <3>1. modules'[i].child_ids[k] = n + 1  BY <2>2, <1>2, <1>6, <1>9, <1>12, Lengthened
    <3> QED  BY <3>1, <2>2, <1>2, <1>13
  <2>3. CASE ~(i = p /\ k = Len(modules[p].child_ids) + 1)
    <3>1. k \in DOMAIN modules[i].child_ids /\ modules'[i].child_ids[k] = modules[i].child_ids[k]
      <4>1. CASE i = p  BY <4>1, <2>1, <2>3, <1>2, <1>9, <1>12, Lengthened
      <4>2. CASE i # p  BY <4>2, <2>1, <1>11
      <4> QED  BY <4>1, <4>2
    <3>2. modules[i].child_ids[k] \in 1..n /\ modules[modules[i].child_ids[k]].parent_id = i
      BY <3>1, <2>1, <1>2 DEF Inv, ChildrenOwned
    <3> QED  BY <3>1, <3>2, <1>2, <1>11
  <2> QED  BY <2>2, <2>3
<1>19. ParentsList'
  <2> DEFINE Now(i, c) == \E k \in DOMAIN modules'[i].child_ids : modules'[i].child_ids[k] = c
  <2>1. \A i \in 1..n : \A c \in Nat : Lists(i, c) => Now(i, c)
    <3>1. ASSUME NEW i \in 1..n, NEW k \in DOMAIN modules[i].child_ids PROVE k \in Nat
      <4>1. modules[i].child_ids \in Seq(Nat)  BY <1>2, <1>9
      <4> QED  BY <4>1
    <3> QED  BY <3>1, <1>14 DEF Lists
  <2>2. Now(p, n + 1)
    <3>1. Len(modules[p].child_ids) + 1 \in DOMAIN modules'[p].child_ids
          /\ modules'[p].child_ids[Len(modules[p].child_ids) + 1] = n + 1
      BY <1>2, <1>6, <1>9, <1>12, Lengthened
    <3> QED  BY <3>1
  <2> HIDE DEF Now
  <2>3. ASSUME NEW i \in 1..n + 1, i # 1 PROVE Now(modules'[i].parent_id, i)
    <3>1. CASE i = n + 1  BY <3>1, <2>2, <1>13
    <3>2. CASE i # n + 1
      <4>1. i \in DOMAIN modules \ {1} /\ i \in 1..n  BY <2>3, <3>2, <1>2
      <4>2. modules[i].parent_id \in 1..n  BY <4>1, <1>2 DEF Inv, NamesExtend
      <4>3. Lists(modules[i].parent_id, i)  BY <4>1 DEF Inv, ParentsList
      <4>4. Now(modules[i].parent_id, i)  BY <4>1, <4>2, <4>3, <2>1
      <4> QED  BY <4>1, <4>4, <1>11
    <3> QED  BY <3>1, <3>2
  <2>4. \A i \in DOMAIN modules' \ {1} : Now(modules'[i].parent_id, i)  BY <1>10, <2>3
  <2> QED  BY <2>4 DEF ParentsList, Lists, Now
<1>20. ScansNest'
  <2> DEFINE l == Len(scans)
  <2>1. /\ Onward \in Seq(Scans) /\ Len(Onward) = l /\ DOMAIN scans = 1..l /\ l \in Nat
        /\ \A i \in 1..l : Onward[i].parent = scans[i].parent
    BY <1>4, MovedOn DEF Inv, Typed
  <2>2. Scan(n + 1) \in Scans /\ Scan(n + 1).parent = n + 1  BY <1>2 DEF Scan, Scans
  <2> HIDE DEF l
  <2>3. /\ DOMAIN scans' = 1..l + 1 /\ scans'[l + 1].parent = n + 1
        /\ \A i \in 1..l : scans'[i].parent = scans[i].parent
    <3>1. /\ DOMAIN scans' = 1..l + 1 /\ scans'[l + 1] = Scan(n + 1) /\ \A i \in 1..l : scans'[i] = Onward[i]
      BY <1>4, <2>1, <2>2, Lengthened
    <3> QED  BY <2>1, <2>2, <3>1
  <2>4. \A i \in 1..l : scans[i].parent \in 1..n /\ Len(modules[scans[i].parent].qname) = i - 1
    BY <1>2, <2>1 DEF Inv, ScansNest
  <2>5. ASSUME NEW i \in 1..l + 1
        PROVE  scans'[i].parent \in 1..n + 1 /\ Len(modules'[scans'[i].parent].qname) = i - 1
    <3>1. CASE i = l + 1
      <4>1. scans'[i].parent = n + 1 /\ n + 1 \in 1..n + 1  BY <3>1, <2>3, <1>2
      <4>2. Len(modules'[n + 1].qname) = l  BY <1>6, <1>13 DEF l
      <4>3. modules'[scans'[i].parent].qname = modules'[n + 1].qname  BY <4>1
      <4>4. l = i - 1  BY <3>1, <2>1
      <4> QED  BY <4>1, <4>2, <4>3, <4>4
    <3>2. CASE i # l + 1
      <4>1. i \in 1..l  BY <3>2, <2>1
      <4>2. scans'[i].parent = scans[i].parent  BY <4>1, <2>3
      <4>3. scans[i].parent \in 1..n  BY <4>1, <2>4
      <4>4. modules'[scans[i].parent].qname = modules[scans[i].parent].qname  BY <4>3, <1>11
      <4>5. Len(modules[scans[i].parent].qname) = i - 1  BY <4>1, <2>4
      <4>6. scans'[i].parent \in 1..n + 1  BY <4>2, <4>3
      <4> QED  BY <4>2, <4>4, <4>5, <4>6
    <3> QED  BY <3>1, <3>2
  <2>6. ASSUME NEW q \in visit_stack'
        PROVE  Len(q) + 1 \in 1..l + 1 /\ q = modules'[scans'[Len(q) + 1].parent].qname
    <3>1. CASE q = QName  BY <3>1, <2>1, <2>3, <1>6, <1>13 DEF l
    <3>2. CASE q # QName
      <4>1. Len(q) + 1 \in 1..l /\ q = modules[scans[Len(q) + 1].parent].qname
        BY <3>2, <1>4, <2>1 DEF Inv, ScansNest
      <4>2. scans'[Len(q) + 1].parent = scans[Len(q) + 1].parent /\ scans[Len(q) + 1].parent \in 1..n
        BY <4>1, <2>3, <2>4
      <4> QED  BY <4>1, <4>2, <2>1, <1>11
    <3> QED  BY <3>1, <3>2
  <2>7. loading' = "scanning" /\ scans' # <<>>
    <3>1. 1 \in DOMAIN scans'  BY <2>1, <2>3
    <3> QED  BY <3>1, <1>4 DEF AtDeclaration
  <2> QED  BY <1>10, <2>3, <2>5, <2>6, <2>7 DEF ScansNest
<1> QED  BY <1>15, <1>16, <1>17, <1>18, <1>19, <1>20 DEF Inv

(* When a scan ends, its name, the longest, leaves the stack.              *)
LEMMA EndScanKeeps == ASSUME Inv, EndScan PROVE Inv'
<1>1. /\ loading = "scanning" /\ visit_stack' = visit_stack \ {Parent.qname}
      /\ scans' = SubSeq(scans, 1, Len(scans) - 1)
      /\ loading' = IF Len(scans) = 1 THEN "done" ELSE loading
      /\ UNCHANGED <<tree, modules, errors>>
  BY DEF EndScan, ml_pop_stack
<1>2. scans \in Seq(Scans) /\ scans # <<>>  BY <1>1 DEF Inv, Typed, ScansNest
<1>3. PICK l \in Nat : l = Len(scans)  BY <1>2
<1>4. l >= 1 /\ DOMAIN scans = 1..l  BY <1>2, <1>3
<1>5. /\ scans' \in Seq(Scans) /\ DOMAIN scans' = 1..l - 1 /\ Len(scans') = l - 1
      /\ \A i \in 1..l - 1 : scans'[i] = scans[i]
  BY <1>1, <1>2, <1>3, <1>4
<1>6. Typed'
  <2>1. tree \in Trees /\ modules \in Seq(Module) /\ visit_stack \subseteq Seq(Declaration)  BY DEF Inv, Typed
  <2>2. visit_stack' \subseteq Seq(Declaration) /\ loading' \in {"start", "scanning", "done"}  BY <1>1, <2>1
  <2> QED  BY <1>1, <1>5, <2>1, <2>2 DEF Typed, Module, Scans
<1>7. (NamesExtend /\ OneModuleAName /\ ChildrenOwned /\ ParentsList)'
  BY <1>1 DEF Inv, NamesExtend, OneModuleAName, ChildrenOwned, ParentsList, Lists
<1>8. ScansNest'
  <2>1. loading' = "scanning" => scans' # <<>>
    <3>1. CASE l = 1  BY <3>1, <1>1, <1>3
    <3>2. CASE l # 1
      <4>1. 1 \in DOMAIN scans'  BY <3>2, <1>4, <1>5
      <4> QED  BY <4>1
    <3> QED  BY <3>1, <3>2
  <2>2. \A i \in 1..l - 1 :
            scans'[i].parent \in DOMAIN modules' /\ Len(modules'[scans'[i].parent].qname) = i - 1
    <3> TAKE i \in 1..l - 1
    <3>1. i \in DOMAIN scans  BY <1>4
    <3>2. scans[i].parent \in DOMAIN modules /\ Len(modules[scans[i].parent].qname) = i - 1
      BY <3>1 DEF Inv, ScansNest
    <3> QED  BY <3>2, <1>1, <1>5
  <2>3. ASSUME NEW q \in visit_stack'
        PROVE  Len(q) + 1 \in 1..l - 1 /\ q = modules'[scans'[Len(q) + 1].parent].qname
    <3>1. q \in visit_stack /\ q # Parent.qname  BY <1>1, <2>3
    <3>2. Len(q) + 1 \in 1..l /\ q = modules[scans[Len(q) + 1].parent].qname
      BY <3>1, <1>4 DEF Inv, ScansNest
    <3>3. Len(q) + 1 # l  BY <3>1, <3>2, <1>3 DEF Parent, Scanned
    <3>4. Len(q) + 1 \in 1..l - 1  BY <3>2, <3>3
    <3> QED  BY <3>2, <3>4, <1>1, <1>5
  <2>4. loading' # "start"  BY <1>1
  <2> QED  BY <1>5, <2>1, <2>2, <2>3, <2>4 DEF ScansNest
<1> QED  BY <1>6, <1>7, <1>8 DEF Inv

(* The root has the empty name, and is all there is at first.              *)
LEMMA BuildRootKeeps == ASSUME Inv, BuildRoot PROVE Inv'
<1> DEFINE root == module_new(Root, EntryFile, 0)
<1>1. modules = <<>> /\ tree \in Trees  BY DEF Inv, Typed, ScansNest, BuildRoot
<1>2. /\ modules' = <<root>> /\ visit_stack' = {Root} /\ scans' = <<Scan(1)>>
      /\ loading' = "scanning" /\ tree' = tree /\ EntryFile \in DOMAIN tree
  BY <1>1 DEF BuildRoot, ml_add_module
<1>3. root \in Module /\ root.qname = <<>> /\ root.child_ids = <<>>
  BY <1>2 DEF module_new, Module, Root
<1> HIDE DEF root
<1>4. Scan(1) \in Scans /\ Scan(1).parent = 1  BY DEF Scan, Scans
<1>5. /\ modules' \in Seq(Module) /\ DOMAIN modules' = {1} /\ modules'[1] = root
      /\ scans' \in Seq(Scans) /\ DOMAIN scans' = {1} /\ scans'[1] = Scan(1)
  BY <1>2, <1>3, <1>4
<1>6. Typed'  BY <1>1, <1>2, <1>5 DEF Typed, Module, Scans, Root
<1>7. (NamesExtend /\ OneModuleAName /\ ChildrenOwned /\ ParentsList)'
  BY <1>3, <1>5 DEF NamesExtend, OneModuleAName, ChildrenOwned, ParentsList, Root
<1>8. ScansNest'
  <2>1. scans' # <<>>  BY <1>2
  <2>2. Len(modules'[scans'[1].parent].qname) = 0 /\ scans'[1].parent \in DOMAIN modules'
    BY <1>3, <1>4, <1>5
  <2>3. \A q \in visit_stack' : q = <<>> /\ Len(q) + 1 = 1  BY <1>2 DEF Root
  <2>4. modules'[scans'[1].parent].qname = <<>>  BY <1>3, <1>4, <1>5
  <2> QED  BY <1>2, <1>5, <2>1, <2>2, <2>3, <2>4 DEF ScansNest
<1> QED  BY <1>6, <1>7, <1>8 DEF Inv

LEMMA CannotReadKeeps == ASSUME Inv, CannotRead PROVE Inv'
<1>1. loading = "start" /\ loading' = "done" /\ UNCHANGED <<tree, modules, visit_stack, scans>>
  BY DEF CannotRead
<1>2. scans = <<>> /\ visit_stack = {}  BY <1>1 DEF Inv, ScansNest
<1> QED
  BY <1>1, <1>2 DEF Inv, Typed, Module, Scans, NamesExtend, OneModuleAName, ChildrenOwned, ParentsList, Lists, ScansNest

LEMMA InvHolds == LoaderSpec => []Inv
<1>1. LoaderInit => Inv
  BY DEF LoaderInit, Inv, Typed, NamesExtend, OneModuleAName, ChildrenOwned, ParentsList, ScansNest
<1>2. Inv /\ [LoaderNext]_loaderVars => Inv'
  <2> SUFFICES ASSUME Inv, [LoaderNext]_loaderVars PROVE Inv'  OBVIOUS
  <2>1. CASE CannotRead  BY <2>1, CannotReadKeeps
  <2>2. CASE BuildRoot  BY <2>2, BuildRootKeeps
  <2>3. CASE Refuse  BY <2>3, RefuseKeeps
  <2>4. CASE FindLoaded  BY <2>4, FindLoadedKeeps
  <2>5. CASE Load  BY <2>5, LoadKeeps
  <2>6. CASE EndScan  BY <2>6, EndScanKeeps
  <2>7. CASE UNCHANGED loaderVars
    BY <2>7 DEF loaderVars, Inv, Typed, Module, Scans, NamesExtend, OneModuleAName, ChildrenOwned, ParentsList,
                Lists, ScansNest
  <2> QED  BY <2>1, <2>2, <2>3, <2>4, <2>5, <2>6, <2>7 DEF LoaderNext
<1> QED  BY <1>1, <1>2, PTL DEF LoaderSpec

-----------------------------------------------------------------------------
(* A qualified name is one module's, and parents and children agree on     *)
(* each other, however often a module is declared: ml_load_module          *)
(* registers a module and its parent's list of children together.          *)
THEOREM Families == LoaderSpec => []FamiliesAgree
<1>1. Inv => FamiliesAgree
  <2> SUFFICES ASSUME Inv PROVE FamiliesAgree  OBVIOUS
  <2>1. \A i \in DOMAIN modules \ {1} : modules[i].parent_id \in 1..i - 1  BY DEF Inv, NamesExtend
  <2>2. \A i \in DOMAIN modules \ {1} : Lists(modules[i].parent_id, i)  BY DEF Inv, ParentsList
  <2>3. \A i \in DOMAIN modules : \A k \in DOMAIN modules[i].child_ids :
            modules[modules[i].child_ids[k]].parent_id = i
    BY DEF Inv, ChildrenOwned
  <2> QED  BY <2>1, <2>2, <2>3 DEF Inv, FamiliesAgree
<1> QED  BY <1>1, InvHolds, PTL

Refused == [what : {"cannot read", "not found", "ambiguous"}, qname : Seq(Declaration)]
Told == errors \in Seq(Refused)

LEMMA ToldKeeps == ASSUME Inv, Told, [LoaderNext]_loaderVars PROVE Told'
<1>1. CASE CannotRead
  <2>1. Root \in Seq(Declaration)  BY DEF Root
  <2> DEFINE refusal == [what |-> "cannot read", qname |-> Root]
  <2>2. refusal \in Refused  BY <2>1 DEF Refused
  <2>3. errors' = Append(errors, refusal)  BY <1>1 DEF CannotRead, ml_add_error
  <2> HIDE DEF refusal
  <2> QED  BY <2>2, <2>3 DEF Told
<1>2. CASE Refuse
  <2>1. AtDeclaration /\ Refusal # "none"  BY <1>2 DEF Refuse
  <2>2. ~ml_on_stack(QName) /\ QName \in Seq(Declaration)  BY <2>1, NotOnStack, AtOne
  <2>3. Refusal \in {"not found", "ambiguous"}  BY <2>1, <2>2 DEF Refusal
  <2>4. [what |-> Refusal, qname |-> QName] \in Refused  BY <2>2, <2>3 DEF Refused
  <2> QED  BY <1>2, <2>4 DEF Refuse, ml_add_error, Told
<1>3. CASE errors' = errors  BY <1>3 DEF Told
<1> QED
  BY <1>1, <1>2, <1>3 DEF LoaderNext, loaderVars, BuildRoot, FindLoaded, Load, EndScan

(* The test for a cycle of modules never succeeds, whatever the files      *)
(* declare: what a scan asks for is longer than any name on the stack.     *)
THEOREM NoCycleSeen == LoaderSpec => []NoneCircular
<1>1. LoaderInit => Told  BY DEF LoaderInit, Told
<1>2. Inv /\ Told /\ [LoaderNext]_loaderVars => Told'  BY ToldKeeps
<1>3. Told => NoneCircular
  <2> SUFFICES ASSUME Told, NEW i \in DOMAIN errors PROVE errors[i].what # "circular"  BY DEF NoneCircular
  <2>1. errors[i] \in Refused  BY DEF Told
  <2> QED  BY <2>1 DEF Refused
<1> QED  BY <1>1, <1>2, <1>3, InvHolds, PTL DEF LoaderSpec

-----------------------------------------------------------------------------
(* What becomes of a declaration: a module of its name, if what it means   *)
(* is taken for one file, or an error.                                     *)
Declares(i) == tree[modules[i].source_path]
Meant(i, d) == Located(modules[i].source_path.dir, d)
NameIn(i, d) == Append(modules[i].qname, d)
Complaint(i, d) ==
    [what |-> IF Meant(i, d) = {} THEN "not found" ELSE "ambiguous", qname |-> NameIn(i, d)]
Dealt(i, d) ==
    IF OneFile(Meant(i, d)) THEN \E j \in DOMAIN modules : modules[j].qname = NameIn(i, d)
    ELSE \E e \in DOMAIN errors : errors[e] = Complaint(i, d)

(* All of a module's declarations are dealt with, but those that a scan    *)
(* has yet to come to.                                                     *)
Pending(i, k) == \E s \in DOMAIN scans : scans[s].parent = i /\ k >= scans[s].at
AllDealt == \A i \in DOMAIN modules : \A k \in DOMAIN Declares(i) : Dealt(i, Declares(i)[k]) \/ Pending(i, k)

(* Nothing else is loaded or refused.                                      *)
Rooted ==
    /\ modules # <<>> => modules[1].source_path = EntryFile /\ EntryFile \in DOMAIN tree
    /\ modules = <<>> => EntryFile \notin DOMAIN tree \/ loading = "start"
    /\ loading = "start" => errors = <<>>
    /\ loading = "done" => scans = <<>>
Comes(j) ==
    \E k \in DOMAIN Declares(modules[j].parent_id) :
        LET d == Declares(modules[j].parent_id)[k]
        IN  /\ modules[j].qname = NameIn(modules[j].parent_id, d)
            /\ Meant(modules[j].parent_id, d) = {modules[j].source_path}
            /\ OneFile(Meant(modules[j].parent_id, d))
ComesFrom == \A j \in DOMAIN modules \ {1} : Comes(j)
Nesting == \A i \in DOMAIN modules : Len(modules[i].qname) <= MaxNesting
Founded(e) ==
    \E i \in DOMAIN modules : \E k \in DOMAIN Declares(i) :
        ~OneFile(Meant(i, Declares(i)[k])) /\ errors[e] = Complaint(i, Declares(i)[k])
Grounded == modules # <<>> => \A e \in DOMAIN errors : Founded(e)

LoadInv == Inv /\ Told /\ AllDealt /\ Rooted /\ ComesFrom /\ Nesting /\ Grounded

LEMMA CountOfFiles ==
    ASSUME NEW dir, NEW d
    PROVE  LET S == Located(dir, d)
           IN  /\ OneFile(S) => \E f : S = {f} /\ f \notin TakenForTwo
               /\ \A f : S = {f} /\ f \notin TakenForTwo => OneFile(S)
<1> DEFINE S == Located(dir, d)
<1>1. IsFiniteSet(ml_locate(dir, d))
  <2>1. IsFiniteSet({Under(dir, d.steps)})  BY FS_Singleton
  <2>2. ml_locate(dir, d) = {Under(dir, d.steps)}
        \/ ml_locate(dir, d) = {Under(dir, d.steps)} \cup {Under(dir \o d.steps, <<"mod">>)}
    BY DEF ml_locate
  <2>3. IsFiniteSet({Under(dir, d.steps)} \cup {Under(dir \o d.steps, <<"mod">>)})  BY <2>1, FS_AddElement
  <2> QED  BY <2>1, <2>2, <2>3
<1>2. IsFiniteSet(S)
  <2>1. S \subseteq ml_locate(dir, d)  BY DEF Located
  <2> QED  BY <1>1, <2>1, FS_Subset
<1>3. \A f : S = {f} => Cardinality(S) = 1  BY FS_Singleton
<1>4. Cardinality(S) = 1 => \E f : S = {f}  BY <1>2, FS_Singleton
<1> QED  BY <1>3, <1>4 DEF OneFile

LEMMA Parsing ==
    ASSUME Inv
    PROVE  /\ modules \in Seq(Module) /\ DOMAIN modules = 1..Len(modules) /\ Len(modules) \in Nat
           /\ \A i \in DOMAIN modules :
                 /\ modules[i].qname \in Seq(Declaration) /\ modules[i].source_path \in DOMAIN tree
                 /\ Declares(i) \in Seq(Declaration)
                 /\ \A k \in DOMAIN Declares(i) : Declares(i)[k] \in Declaration
           /\ \A j \in DOMAIN modules \ {1} : modules[j].parent_id \in DOMAIN modules
<1>1. modules \in Seq(Module) /\ tree \in Trees  BY DEF Inv, Typed
<1>2. ASSUME NEW i \in DOMAIN modules
      PROVE  /\ modules[i].qname \in Seq(Declaration) /\ modules[i].source_path \in DOMAIN tree
             /\ Declares(i) \in Seq(Declaration)
             /\ \A k \in DOMAIN Declares(i) : Declares(i)[k] \in Declaration
  <2>1. modules[i] \in Module  BY <1>1
  <2>2. modules[i].qname \in Seq(Declaration) /\ modules[i].source_path \in DOMAIN tree  BY <2>1 DEF Module
  <2>3. Declares(i) \in Seq(Declaration)  BY <1>1, <2>2, TreesAssumption DEF Declares
  <2> QED  BY <2>2, <2>3
<1>3. \A j \in DOMAIN modules \ {1} : modules[j].parent_id \in DOMAIN modules
  BY <1>1 DEF Inv, NamesExtend
<1> QED  BY <1>1, <1>2, <1>3

LEMMA SameExtension ==
    ASSUME NEW D, NEW s \in Seq(D), NEW t \in Seq(D), NEW d \in D, NEW e \in D,
           Append(s, d) = Append(t, e)
    PROVE  s = t /\ d = e
<1>1. s = t  BY AppendInjective
<1>2. Append(s, d)[Len(s) + 1] = d /\ Append(s, e)[Len(s) + 1] = e  BY Lengthened
<1> QED  BY <1>1, <1>2

(* A module of the name that a declaration gives was loaded for it.        *)
LEMMA LoadedForIt ==
    ASSUME Inv, ComesFrom, NEW i \in DOMAIN modules, NEW d \in Declaration,
           NEW j \in DOMAIN modules, modules[j].qname = NameIn(i, d)
    PROVE  /\ j # 1 /\ modules[j].parent_id = i
           /\ Meant(i, d) = {modules[j].source_path} /\ OneFile(Meant(i, d))
<1>1. modules[i].qname \in Seq(Declaration)  BY Parsing
<1>2. j # 1
  <2>1. NameIn(i, d) # <<>>  BY <1>1 DEF NameIn
  <2>2. modules # <<>>  BY Parsing
  <2> QED  BY <2>1, <2>2 DEF Inv, NamesExtend, Root
<1>3. PICK p \in DOMAIN modules : p = modules[j].parent_id  BY <1>2, Parsing
<1>4. PICK k \in DOMAIN Declares(p) : /\ modules[j].qname = NameIn(p, Declares(p)[k])
                                      /\ Meant(p, Declares(p)[k]) = {modules[j].source_path}
                                      /\ OneFile(Meant(p, Declares(p)[k]))
  BY <1>2, <1>3 DEF ComesFrom, Comes
<1>5. PICK e \in Declaration : e = Declares(p)[k]  BY Parsing
<1>6. modules[p].qname \in Seq(Declaration)  BY Parsing
<1>7. modules[p].qname = modules[i].qname /\ e = d
  <2>1. Append(modules[p].qname, e) = Append(modules[i].qname, d)  BY <1>4, <1>5 DEF NameIn
  <2> HIDE DEF Declaration
  <2> QED  BY <2>1, <1>1, <1>6, SameExtension
<1>8. p = i  BY <1>7 DEF Inv, OneModuleAName
<1> QED  BY <1>2, <1>3, <1>4, <1>5, <1>7, <1>8

(* What the scan that is at a declaration decides.                         *)
LEMMA Decided ==
    ASSUME Inv, ComesFrom, AtDeclaration
    PROVE  /\ Scanned.parent \in DOMAIN modules
           /\ \E k \in DOMAIN Declares(Scanned.parent) :
                 k = Scanned.at /\ Current = Declares(Scanned.parent)[k]
           /\ QName = NameIn(Scanned.parent, Current) /\ Candidates = Meant(Scanned.parent, Current)
           /\ IF OneFile(Meant(Scanned.parent, Current)) THEN Refusal = "none"
              ELSE [what |-> Refusal, qname |-> QName] = Complaint(Scanned.parent, Current)
<1>1. PICK i \in DOMAIN modules : i = Scanned.parent  BY AtOne
<1>2. PICK d \in Declaration : d = Current  BY AtOne
<1>3. QName = NameIn(i, d) /\ Candidates = Meant(i, d)
  BY <1>1, <1>2 DEF QName, Parent, NameIn, Candidates, Meant
<1>4. Scanned.at \in DOMAIN Declares(i)
  <2>1. scans \in Seq(Scans) /\ Len(scans) \in DOMAIN scans  BY AtOne DEF Inv, Typed
  <2>2. Scanned \in Scans  BY <2>1 DEF Scanned
  <2>3. Scanned.at \in Nat \ {0}  BY <2>2 DEF Scans
  <2>4. Declarations = Declares(i)  BY <1>1 DEF Declarations, Parent, Declares
  <2>5. Declares(i) \in Seq(Declaration)  BY Parsing
  <2>6. Scanned.at <= Len(Declares(i))  BY <2>4 DEF AtDeclaration
  <2> QED  BY <2>3, <2>5, <2>6
<1>5. Current = Declares(i)[Scanned.at]  BY <1>1 DEF Current, Declarations, Parent, Declares
<1>6. ~ml_on_stack(QName)  BY NotOnStack
<1>7. CASE OneFile(Meant(i, d))
  <2>1. Candidates # {} /\ OneFile(Candidates)  BY <1>3, <1>7, CountOfFiles DEF Meant
  <2>2. Refusal = "none"  BY <1>6, <2>1 DEF Refusal
  <2> QED  BY <2>2, <1>1, <1>2, <1>3, <1>4, <1>5, <1>7
<1>8. CASE ~OneFile(Meant(i, d))
  <2>1. ml_find_by_qname(QName) = {}
    <3> SUFFICES ASSUME NEW j \in DOMAIN modules, modules[j].qname = QName PROVE FALSE  BY DEF ml_find_by_qname
    <3>1. OneFile(Meant(i, d))  BY <1>3, LoadedForIt
    <3> QED  BY <3>1, <1>8
  <2>2. ~OneFile(Candidates)  BY <1>3, <1>8
  <2>3. Refusal = IF Meant(i, d) = {} THEN "not found" ELSE "ambiguous"
    <3>1. CASE Candidates = {}  BY <3>1, <1>3, <1>6, <2>1, <2>2 DEF Refusal
    <3>2. CASE Candidates # {}  BY <3>2, <1>3, <1>6, <2>1, <2>2 DEF Refusal
    <3> QED  BY <3>1, <3>2
  <2> QED  BY <2>3, <1>1, <1>2, <1>3, <1>4, <1>5, <1>8 DEF Complaint
<1> QED  BY <1>7, <1>8

-----------------------------------------------------------------------------
(* A step keeps the modules and the errors there are.                      *)
Kept ==
    /\ tree' = tree
    /\ DOMAIN modules \subseteq DOMAIN modules' /\ DOMAIN errors \subseteq DOMAIN errors'
    /\ \A i \in DOMAIN modules : /\ modules'[i].qname = modules[i].qname
                                 /\ modules'[i].source_path = modules[i].source_path
                                 /\ modules'[i].parent_id = modules[i].parent_id
    /\ \A e \in DOMAIN errors : errors'[e] = errors[e]

LEMMA StillMeant ==
    ASSUME Kept, NEW i \in DOMAIN modules, NEW d
    PROVE  /\ Declares(i)' = Declares(i) /\ Meant(i, d)' = Meant(i, d) /\ NameIn(i, d)' = NameIn(i, d)
           /\ Complaint(i, d)' = Complaint(i, d) /\ (Dealt(i, d) => Dealt(i, d)')
<1>1. Declares(i)' = Declares(i) /\ Meant(i, d)' = Meant(i, d) /\ NameIn(i, d)' = NameIn(i, d)
  BY DEF Kept, Declares, Meant, NameIn, Located
<1>2. Complaint(i, d)' = Complaint(i, d)  BY <1>1 DEF Complaint
<1>3. Dealt(i, d) => Dealt(i, d)'
  <2>1. CASE OneFile(Meant(i, d))  BY <2>1, <1>1 DEF Dealt, Kept
  <2>2. CASE ~OneFile(Meant(i, d))  BY <2>2, <1>1, <1>2 DEF Dealt, Kept
  <2> QED  BY <2>1, <2>2
<1> QED  BY <1>1, <1>2, <1>3

LEMMA StillFounded ==
    ASSUME Inv, Kept
    PROVE  /\ \A j \in DOMAIN modules \ {1} : Comes(j) => Comes(j)'
           /\ \A e \in DOMAIN errors : Founded(e) => Founded(e)'
<1>1. ASSUME NEW j \in DOMAIN modules \ {1}, Comes(j) PROVE Comes(j)'
  <2>1. PICK p \in DOMAIN modules : p = modules[j].parent_id  BY Parsing
  <2>2. PICK k \in DOMAIN Declares(p) : /\ modules[j].qname = NameIn(p, Declares(p)[k])
                                        /\ Meant(p, Declares(p)[k]) = {modules[j].source_path}
                                        /\ OneFile(Meant(p, Declares(p)[k]))
    BY <1>1, <2>1 DEF Comes
  <2>3. /\ Declares(p)' = Declares(p) /\ Meant(p, Declares(p)[k])' = Meant(p, Declares(p)[k])'
        /\ modules'[j].parent_id = p /\ modules'[j].qname = modules[j].qname
        /\ modules'[j].source_path = modules[j].source_path
    BY <2>1, StillMeant DEF Kept
  <2>4. PICK d : d = Declares(p)[k]  OBVIOUS
  <2>5. modules'[j].qname = NameIn(p, d)' /\ Meant(p, d)' = {modules'[j].source_path} /\ OneFile(Meant(p, d)')
    BY <2>2, <2>3, <2>4, StillMeant
  <2> QED  BY <2>3, <2>4, <2>5 DEF Comes
<1>2. ASSUME NEW e \in DOMAIN errors, Founded(e) PROVE Founded(e)'
  <2>1. PICK i \in DOMAIN modules : \E k \in DOMAIN Declares(i) :
            ~OneFile(Meant(i, Declares(i)[k])) /\ errors[e] = Complaint(i, Declares(i)[k])
    BY <1>2 DEF Founded
  <2>2. PICK k \in DOMAIN Declares(i) :
            ~OneFile(Meant(i, Declares(i)[k])) /\ errors[e] = Complaint(i, Declares(i)[k])
    BY <2>1
  <2>3. PICK d : d = Declares(i)[k]  OBVIOUS
  <2>4. i \in DOMAIN modules' /\ errors'[e] = errors[e] /\ Declares(i)' = Declares(i)  BY StillMeant DEF Kept
  <2>5. ~OneFile(Meant(i, d)') /\ errors'[e] = Complaint(i, d)'  BY <2>2, <2>3, <2>4, StillMeant
  <2> QED  BY <2>3, <2>4, <2>5 DEF Founded
<1> QED  BY <1>1, <1>2

(* A scan that has dealt with a declaration goes on to the next.           *)
LEMMA GoesOn ==
    ASSUME Inv, AllDealt, ComesFrom, AtDeclaration, Kept,
           NEW p, p = Scanned.parent, NEW c, c = Current, Dealt(p, c)',
           \A s \in DOMAIN scans : /\ s \in DOMAIN scans' /\ scans'[s].parent = Onward[s].parent
                                   /\ scans'[s].at = Onward[s].at
    PROVE  \A i \in DOMAIN modules : \A k \in DOMAIN Declares(i)' :
               Dealt(i, Declares(i)[k])' \/ Pending(i, k)'
<1> SUFFICES ASSUME NEW i \in DOMAIN modules, NEW k \in DOMAIN Declares(i)
             PROVE  Dealt(i, Declares(i)[k])' \/ Pending(i, k)'
  BY StillMeant
<1>1. PICK d : d = Declares(i)[k]  OBVIOUS
<1>2. Declares(i)' = Declares(i)  BY StillMeant
<1>3. CASE Dealt(i, d)  BY <1>1, <1>2, <1>3, StillMeant
<1>4. CASE Pending(i, k)
  <2>1. PICK s \in DOMAIN scans : scans[s].parent = i /\ k >= scans[s].at  BY <1>4 DEF Pending
  <2>2. s \in DOMAIN scans' /\ scans'[s].parent = i
        /\ scans'[s].at = IF s = Len(scans) THEN scans[s].at + 1 ELSE scans[s].at
    BY <2>1, MovedOn
  <2>3. CASE s # Len(scans) \/ k # scans[s].at
    <3>1. k \in Nat  BY Parsing
    <3>2. scans[s].at \in Nat
      <4>1. scans[s] \in Scans  BY DEF Inv, Typed
      <4> QED  BY <4>1 DEF Scans
    <3>3. k >= scans'[s].at  BY <2>1, <2>2, <2>3, <3>1, <3>2
    <3> QED  BY <2>2, <3>3 DEF Pending
  <2>4. CASE s = Len(scans) /\ k = scans[s].at
    <3>1. i = p /\ k = Scanned.at  BY <2>1, <2>4 DEF Scanned
    <3>2. d = c  BY <1>1, <3>1, Decided
    <3> QED  BY <1>1, <1>2, <3>1, <3>2
  <2> QED  BY <2>3, <2>4
<1> QED  BY <1>1, <1>3, <1>4 DEF AllDealt

LEMMA RefuseDeals == ASSUME LoadInv, Refuse PROVE LoadInv'
<1>1. Inv /\ Told /\ AllDealt /\ Rooted /\ ComesFrom /\ Nesting /\ Grounded /\ AtDeclaration  BY DEF LoadInv, Refuse
<1>2. Inv' /\ Told'  BY <1>1, RefuseKeeps, ToldKeeps DEF LoaderNext
<1>i. PICK i \in DOMAIN modules : i = Scanned.parent  BY <1>1, AtOne
<1>d. PICK d : d = Current  OBVIOUS
<1>e. PICK error : error = [what |-> Refusal, qname |-> QName]  OBVIOUS
<1>3. ~OneFile(Meant(i, d)) /\ error = Complaint(i, d)
  BY <1>1, <1>i, <1>d, <1>e, Decided DEF Refuse
<1>4. \E k \in DOMAIN Declares(i) : d = Declares(i)[k]  BY <1>1, <1>i, <1>d, Decided
<1>5. UNCHANGED <<tree, modules, loading>> /\ scans' = Onward /\ errors' = Append(errors, error)
  BY <1>e DEF Refuse, ml_add_error
<1>6. PICK m \in Nat : /\ DOMAIN errors = 1..m /\ DOMAIN errors' = 1..m + 1 /\ errors'[m + 1] = error
                       /\ \A e \in 1..m : errors'[e] = errors[e]
  <2>1. error \in Refused
    <3>1. errors' \in Seq(Refused)  BY <1>2 DEF Told
    <3>2. errors \in Seq(Refused)  BY <1>1 DEF Told
    <3>3. Len(errors) + 1 \in DOMAIN errors' /\ errors'[Len(errors) + 1] = error  BY <1>5, <3>2
    <3> QED  BY <3>1, <3>3
  <2>2. errors \in Seq(Refused)  BY <1>1 DEF Told
  <2> QED  BY <1>5, <2>1, <2>2, Lengthened
<1>7. Kept  BY <1>5, <1>6 DEF Kept
<1>8. m + 1 \in DOMAIN errors'  BY <1>6
<1>9. Dealt(i, d)'
  <2>1. errors'[m + 1] = Complaint(i, d)'  BY <1>3, <1>6, <1>7, StillMeant
  <2>2. ~OneFile(Meant(i, d)')  BY <1>3, <1>7, StillMeant
  <2> QED  BY <1>8, <2>1, <2>2 DEF Dealt
<1>10. AllDealt'
  <2>1. DOMAIN scans' = DOMAIN scans  BY <1>1, <1>5, MovedOn
  <2> QED  BY <1>1, <1>5, <1>7, <1>9, <1>i, <1>d, <2>1, GoesOn DEF AllDealt
<1>11. (Rooted /\ Nesting)'
  <2>1. loading' = "scanning"  BY <1>1, <1>5 DEF AtDeclaration
  <2> QED  BY <1>1, <1>5, <2>1 DEF Rooted, Nesting
<1>12. ComesFrom'
  BY <1>1, <1>5, <1>7, StillFounded DEF ComesFrom
<1>13. Grounded'
  <2>1. modules # <<>>  BY <1>1, Parsing
  <2>2. \A e \in 1..m : Founded(e)'  BY <1>1, <1>6, <1>7, <2>1, StillFounded DEF Grounded
  <2>3. Founded(m + 1)'
    <3>1. PICK k \in DOMAIN Declares(i) : d = Declares(i)[k]  BY <1>4
    <3>2. i \in DOMAIN modules' /\ Declares(i)' = Declares(i)  BY <1>3, <1>5, <1>7, StillMeant
    <3>3. errors'[m + 1] = Complaint(i, d)'  BY <1>3, <1>6, <1>7, StillMeant
    <3>4. ~OneFile(Meant(i, d)')  BY <1>3, <1>7, StillMeant
    <3> QED  BY <3>1, <3>2, <3>3, <3>4 DEF Founded
  <2>4. \A e \in 1..m + 1 : Founded(e)'
    <3> TAKE e \in 1..m + 1
    <3>1. e \in 1..m \/ e = m + 1  OBVIOUS
    <3> QED  BY <2>2, <2>3, <3>1
  <2> QED  BY <1>6, <2>4 DEF Grounded
<1> QED  BY <1>2, <1>10, <1>11, <1>12, <1>13 DEF LoadInv

LEMMA FindLoadedDeals == ASSUME LoadInv, FindLoaded PROVE LoadInv'
<1>1. Inv /\ Told /\ AllDealt /\ Rooted /\ ComesFrom /\ Nesting /\ Grounded /\ AtDeclaration
  BY DEF LoadInv, FindLoaded
<1>2. Inv' /\ Told'  BY <1>1, FindLoadedKeeps, ToldKeeps DEF LoaderNext
<1>i. PICK i \in DOMAIN modules : i = Scanned.parent  BY <1>1, AtOne
<1>d. PICK d : d = Current  OBVIOUS
<1>3. PICK j \in DOMAIN modules : modules[j].qname = QName /\ modules' = Adopt(j)
  BY DEF FindLoaded, ml_find_by_qname
<1>4. /\ DOMAIN modules' = DOMAIN modules
      /\ \A c \in DOMAIN modules : /\ modules'[c].qname = modules[c].qname
                                   /\ modules'[c].source_path = modules[c].source_path
                                   /\ modules'[c].parent_id = modules[c].parent_id
  <2>1. j \in Nat  BY <1>1, Parsing
  <2> QED  BY <1>1, <1>3, <2>1, Adopted
<1>5. UNCHANGED <<tree, loading, errors>> /\ scans' = Onward /\ Refusal = "none"  BY DEF FindLoaded
<1>6. Kept  BY <1>4, <1>5 DEF Kept
<1>7. Dealt(i, d)'
  <2>1. QName = NameIn(i, d) /\ OneFile(Meant(i, d))
    <3>1. [what |-> Refusal, qname |-> QName] # Complaint(i, d)  BY <1>5 DEF Complaint
    <3> QED  BY <1>1, <1>i, <1>d, <3>1, Decided
  <2>2. OneFile(Meant(i, d)') /\ modules'[j].qname = NameIn(i, d)'
    BY <1>3, <1>4, <1>6, <2>1, StillMeant
  <2> QED  BY <1>4, <2>2 DEF Dealt
<1>8. AllDealt'
  <2>1. DOMAIN scans' = DOMAIN scans  BY <1>1, <1>5, MovedOn
  <2> QED  BY <1>1, <1>4, <1>5, <1>6, <1>7, <1>i, <1>d, <2>1, GoesOn DEF AllDealt
<1>9. (Rooted /\ Nesting)'
  <2>1. loading' = "scanning" /\ tree' = tree  BY <1>1, <1>5 DEF AtDeclaration
  <2>2. modules # <<>> /\ 1 \in DOMAIN modules  BY <1>1, Parsing
  <2>3. modules' # <<>> /\ modules'[1].source_path = modules[1].source_path  BY <1>4, <2>2
  <2> QED  BY <1>1, <1>4, <2>1, <2>2, <2>3 DEF Rooted, Nesting
<1>10. ComesFrom'  BY <1>1, <1>4, <1>6, StillFounded DEF ComesFrom
<1>11. Grounded'
  <2>1. modules # <<>>  BY <1>1, Parsing
  <2> QED  BY <1>1, <1>5, <1>6, <2>1, StillFounded DEF Grounded
<1> QED  BY <1>2, <1>8, <1>9, <1>10, <1>11 DEF LoadInv

LEMMA LoadDeals == ASSUME LoadInv, Load PROVE LoadInv'
<1>1. Inv /\ Told /\ AllDealt /\ Rooted /\ ComesFrom /\ Nesting /\ Grounded /\ AtDeclaration  BY DEF LoadInv, Load
<1>2. Inv' /\ Told'  BY <1>1, LoadKeeps, ToldKeeps DEF LoaderNext
<1>i. PICK i \in DOMAIN modules : i = Scanned.parent  BY <1>1, AtOne
<1>d. PICK d : d = Current  OBVIOUS
<1>n. PICK n \in Nat : n = Len(modules) /\ DOMAIN modules = 1..n  BY <1>1, Parsing
<1>3. PICK file \in Candidates : modules' = Append(Adopt(n + 1), module_new(QName, file, i))
  BY <1>i, <1>n DEF Load
<1>4. UNCHANGED <<tree, loading, errors>> /\ scans' = Append(Onward, Scan(n + 1)) /\ Refusal = "none"
      /\ Len(scans) <= MaxNesting
  BY <1>n DEF Load
<1>5. /\ DOMAIN modules' = 1..n + 1
      /\ \A c \in 1..n : /\ modules'[c].qname = modules[c].qname
                         /\ modules'[c].source_path = modules[c].source_path
                         /\ modules'[c].parent_id = modules[c].parent_id
      /\ modules'[n + 1].qname = QName /\ modules'[n + 1].source_path = file /\ modules'[n + 1].parent_id = i
  <2>1. /\ DOMAIN Adopt(n + 1) = 1..n /\ Len(Adopt(n + 1)) = n /\ Adopt(n + 1) \in Seq(Module)
        /\ \A c \in 1..n : /\ Adopt(n + 1)[c].qname = modules[c].qname
                           /\ Adopt(n + 1)[c].source_path = modules[c].source_path
                           /\ Adopt(n + 1)[c].parent_id = modules[c].parent_id
    <3>1. n + 1 \in Nat  OBVIOUS
    <3>2. PICK A : A = Adopt(n + 1)  OBVIOUS
    <3> QED  BY <1>1, <1>n, <3>1, <3>2, Adopted
  <2>2. PICK new : new = module_new(QName, file, i)  OBVIOUS
  <2>3. new.qname = QName /\ new.source_path = file /\ new.parent_id = i  BY <2>2 DEF module_new
  <2>4. /\ DOMAIN modules' = 1..n + 1 /\ modules'[n + 1] = new
        /\ \A c \in 1..n : modules'[c] = Adopt(n + 1)[c]
    BY <1>3, <2>1, <2>2
  <2> QED  BY <2>1, <2>3, <2>4
<1>6. Kept  BY <1>n, <1>4, <1>5 DEF Kept
<1>7. /\ QName = NameIn(i, d) /\ Meant(i, d) = {file} /\ OneFile(Meant(i, d))
      /\ \E k \in DOMAIN Declares(i) : d = Declares(i)[k]
  <2>1. [what |-> Refusal, qname |-> QName] # Complaint(i, d)  BY <1>4 DEF Complaint
  <2>2. OneFile(Meant(i, d)) /\ Candidates = Meant(i, d)  BY <1>1, <1>i, <1>d, <2>1, Decided
  <2>3. \E f : Meant(i, d) = {f}  BY <2>2, CountOfFiles DEF Meant
  <2> QED  BY <1>1, <1>i, <1>d, <2>2, <2>3, Decided
<1>8. /\ Declares(i)' = Declares(i) /\ Meant(i, d)' = {file} /\ OneFile(Meant(i, d)')
      /\ modules'[n + 1].qname = NameIn(i, d)' /\ n + 1 \in DOMAIN modules'
  <2>1. Declares(i)' = Declares(i) /\ Meant(i, d)' = Meant(i, d) /\ NameIn(i, d)' = NameIn(i, d)
    BY <1>6, StillMeant
  <2> QED  BY <1>5, <1>7, <2>1
<1>9. Dealt(i, d)'  BY <1>8 DEF Dealt
<1>10. /\ \A s \in DOMAIN scans : s \in DOMAIN scans' /\ scans'[s] = Onward[s]
       /\ Len(scans) + 1 \in DOMAIN scans' /\ scans'[Len(scans) + 1] = Scan(n + 1)
  <2>1. Onward \in Seq(Scans) /\ DOMAIN Onward = DOMAIN scans /\ Len(Onward) = Len(scans)  BY <1>1, MovedOn
  <2>2. Scan(n + 1) \in Scans  BY DEF Scan, Scans
  <2> QED  BY <1>4, <2>1, <2>2, Lengthened
<1>11. AllDealt'
  <2>1. \A c \in 1..n : \A k \in DOMAIN Declares(c)' : Dealt(c, Declares(c)[k])' \/ Pending(c, k)'
    BY <1>1, <1>6, <1>9, <1>10, <1>i, <1>d, <1>n, GoesOn
  <2>2. \A k \in DOMAIN Declares(n + 1)' : Pending(n + 1, k)'
    <3> TAKE k \in DOMAIN Declares(n + 1)'
    <3>1. Declares(n + 1)' \in Seq(Declaration)
      <4>1. file \in DOMAIN tree /\ tree \in Trees  BY <1>1 DEF Candidates, Located, Inv, Typed
      <4>2. Declares(n + 1)' = tree[file]  BY <1>4, <1>5 DEF Declares
      <4> QED  BY <4>1, <4>2, TreesAssumption
    <3>2. k >= 1  BY <3>1
    <3>3. Scan(n + 1).parent = n + 1 /\ Scan(n + 1).at = 1  BY DEF Scan
    <3> QED  BY <1>10, <3>2, <3>3 DEF Pending
  <2>3. \A c \in 1..n + 1 : c \in 1..n \/ c = n + 1  OBVIOUS
  <2> QED  BY <1>5, <2>1, <2>2, <2>3 DEF AllDealt
<1>12. (Rooted /\ Nesting)'
  <2>1. loading' = "scanning" /\ tree' = tree  BY <1>1, <1>4 DEF AtDeclaration
  <2>2. modules # <<>> /\ 1 \in 1..n  BY <1>1, <1>n, Parsing
  <2>3. modules' # <<>> /\ modules'[1].source_path = modules[1].source_path  BY <1>5, <2>2
  <2>4. Len(QName) <= MaxNesting  BY <1>1, <1>4, AtOne
  <2>5. \A c \in 1..n + 1 : c \in 1..n \/ c = n + 1  OBVIOUS
  <2>6. Nesting'  BY <1>1, <1>5, <1>n, <2>4, <2>5 DEF Nesting
  <2> QED  BY <1>1, <2>1, <2>2, <2>3, <2>6 DEF Rooted
<1>13. ComesFrom'
  <2>1. Comes(n + 1)'
    <3>1. PICK k \in DOMAIN Declares(i) : d = Declares(i)[k]  BY <1>7
    <3> QED  BY <1>5, <1>8, <3>1 DEF Comes
  <2>2. \A c \in 1..n + 1 : c \in 1..n \/ c = n + 1  OBVIOUS
  <2> QED  BY <1>1, <1>5, <1>6, <1>n, <2>1, <2>2, StillFounded DEF ComesFrom
<1>14. Grounded'
  <2>1. modules # <<>>  BY <1>1, Parsing
  <2> QED  BY <1>1, <1>4, <1>6, <2>1, StillFounded DEF Grounded
<1> QED  BY <1>2, <1>11, <1>12, <1>13, <1>14 DEF LoadInv

(* A scan that ends has come to all its declarations.                      *)
LEMMA EndScanDeals == ASSUME LoadInv, EndScan PROVE LoadInv'
<1>1. Inv /\ Told /\ AllDealt /\ Rooted /\ ComesFrom /\ Nesting /\ Grounded  BY DEF LoadInv
<1>2. Inv' /\ Told'  BY <1>1, EndScanKeeps, ToldKeeps DEF LoaderNext
<1>3. /\ loading = "scanning" /\ Scanned.at > Len(Declarations) /\ UNCHANGED <<tree, modules, errors>>
      /\ scans' = SubSeq(scans, 1, Len(scans) - 1) /\ loading' = IF Len(scans) = 1 THEN "done" ELSE loading
  BY DEF EndScan
<1>4. scans \in Seq(Scans) /\ scans # <<>>  BY <1>1, <1>3 DEF Inv, Typed, ScansNest
<1>5. PICK l \in Nat : l = Len(scans) /\ l >= 1 /\ DOMAIN scans = 1..l  BY <1>4
<1>6. DOMAIN scans' = 1..l - 1 /\ \A s \in 1..l - 1 : scans'[s] = scans[s]  BY <1>3, <1>4, <1>5
<1>7. Kept  BY <1>3 DEF Kept
<1>8. AllDealt'
  <2> SUFFICES ASSUME NEW i \in DOMAIN modules, NEW k \in DOMAIN Declares(i)
               PROVE  Dealt(i, Declares(i)[k])' \/ Pending(i, k)'
    BY <1>3, <1>7, StillMeant DEF AllDealt
  <2>1. PICK d : d = Declares(i)[k] /\ d = Declares(i)'[k]  BY <1>7, StillMeant
  <2>2. CASE Dealt(i, d)  BY <1>7, <2>1, <2>2, StillMeant
  <2>3. CASE Pending(i, k)
    <3>1. PICK s \in 1..l : scans[s].parent = i /\ k >= scans[s].at  BY <1>5, <2>3 DEF Pending
    <3>2. s # l
      <4> SUFFICES ASSUME s = l PROVE FALSE  OBVIOUS
      <4>1. Declarations = Declares(i) /\ k >= Scanned.at
        BY <1>5, <3>1 DEF Declarations, Parent, Scanned, Declares
      <4>2. Declares(i) \in Seq(Declaration)  BY <1>1, Parsing
      <4>3. k \in 1..Len(Declares(i)) /\ Len(Declares(i)) \in Nat  BY <4>2
      <4>4. Scanned.at \in Nat
        <5>1. Scanned \in Scans  BY <1>4, <1>5 DEF Scanned
        <5> QED  BY <5>1 DEF Scans
      <4> QED  BY <1>3, <4>1, <4>3, <4>4
    <3>3. s \in 1..l - 1  BY <1>5, <3>2
    <3> QED  BY <1>6, <3>1, <3>3 DEF Pending
  <2> QED  BY <1>1, <2>1, <2>2, <2>3 DEF AllDealt
<1>9. (Rooted /\ Nesting)'
  <2>1. loading' # "start" /\ loading # "start"  BY <1>3
  <2>2. loading' = "done" => scans' = <<>>
    <3>1. l = 1 => DOMAIN scans' = {}  BY <1>6
    <3>2. scans' \in Seq(Scans)  BY <1>2 DEF Inv, Typed, Scans
    <3> QED  BY <1>3, <1>5, <3>1, <3>2
  <2> QED  BY <1>1, <1>3, <2>1, <2>2 DEF Rooted, Nesting
<1>10. ComesFrom'  BY <1>1, <1>3, <1>7, StillFounded DEF ComesFrom
<1>11. Grounded'  BY <1>1, <1>3, <1>7, StillFounded DEF Grounded
<1> QED  BY <1>2, <1>8, <1>9, <1>10, <1>11 DEF LoadInv

LEMMA BuildRootDeals == ASSUME LoadInv, BuildRoot PROVE LoadInv'
<1>1. Inv /\ Told /\ Rooted  BY DEF LoadInv
<1>2. Inv' /\ Told'  BY <1>1, BuildRootKeeps, ToldKeeps DEF LoaderNext
<1>3. modules = <<>> /\ errors = <<>>  BY <1>1 DEF Inv, ScansNest, Rooted, BuildRoot
<1>4. PICK root : root = module_new(Root, EntryFile, 0)  OBVIOUS
<1>5. root.qname = <<>> /\ root.source_path = EntryFile  BY <1>4 DEF module_new, Root
<1>6. /\ modules' = <<root>> /\ scans' = <<Scan(1)>> /\ loading' = "scanning"
      /\ UNCHANGED <<tree, errors>> /\ EntryFile \in DOMAIN tree
  BY <1>3, <1>4 DEF BuildRoot, ml_add_module
<1>7. AllDealt'
  <2> SUFFICES ASSUME NEW k \in DOMAIN Declares(1)' PROVE Pending(1, k)'  BY <1>6 DEF AllDealt
  <2>1. Declares(1)' \in Seq(Declaration)
    <3>1. Declares(1)' = tree[EntryFile]  BY <1>5, <1>6 DEF Declares
    <3> QED  BY <1>1, <1>6, <3>1, TreesAssumption DEF Inv, Typed
  <2>2. k >= 1  BY <2>1
  <2>3. Scan(1).parent = 1 /\ Scan(1).at = 1  BY DEF Scan
  <2> QED  BY <1>6, <2>2, <2>3 DEF Pending
<1>8. (Rooted /\ ComesFrom /\ Nesting /\ Grounded)'
  BY <1>3, <1>5, <1>6, NestingAssumption DEF Rooted, ComesFrom, Nesting, Grounded
<1> QED  BY <1>2, <1>7, <1>8 DEF LoadInv

LEMMA CannotReadDeals == ASSUME LoadInv, CannotRead PROVE LoadInv'
<1>1. Inv /\ Told  BY DEF LoadInv
<1>2. Inv' /\ Told'  BY <1>1, CannotReadKeeps, ToldKeeps DEF LoaderNext
<1>3. modules = <<>> /\ scans = <<>>  BY <1>1 DEF Inv, ScansNest, CannotRead
<1>4. UNCHANGED <<tree, modules, scans>> /\ loading' = "done" /\ EntryFile \notin DOMAIN tree  BY DEF CannotRead
<1> QED  BY <1>2, <1>3, <1>4 DEF LoadInv, AllDealt, Rooted, ComesFrom, Nesting, Grounded

LEMMA LoadInvHolds == LoaderSpec => []LoadInv
<1>1. LoaderInit => LoadInv
  <2> SUFFICES ASSUME LoaderInit PROVE LoadInv  OBVIOUS
  <2>1. Inv
    BY DEF LoaderInit, Inv, Typed, NamesExtend, OneModuleAName, ChildrenOwned, ParentsList, ScansNest
  <2> QED  BY <2>1 DEF LoaderInit, LoadInv, Told, AllDealt, Rooted, ComesFrom, Nesting, Grounded
<1>2. LoadInv /\ [LoaderNext]_loaderVars => LoadInv'
  <2> SUFFICES ASSUME LoadInv, [LoaderNext]_loaderVars PROVE LoadInv'  OBVIOUS
  <2>1. CASE LoaderNext
    BY <2>1, CannotReadDeals, BuildRootDeals, RefuseDeals, FindLoadedDeals, LoadDeals, EndScanDeals DEF LoaderNext
  <2>2. CASE UNCHANGED loaderVars
    <3>1. Kept /\ UNCHANGED loaderVars  BY <2>2 DEF loaderVars, Kept
    <3>2. Inv' /\ Told'
      BY <2>2 DEF LoadInv, loaderVars, Inv, Typed, Module, Scans, NamesExtend, OneModuleAName, ChildrenOwned,
                  ParentsList, Lists, ScansNest, Told
    <3>3. AllDealt'
      <4>1. \A i \in DOMAIN modules : Declares(i)' = Declares(i)  BY <3>1, StillMeant
      <4>2. ASSUME NEW i \in DOMAIN modules, NEW k \in DOMAIN Declares(i)
            PROVE  Dealt(i, Declares(i)[k])' \/ Pending(i, k)'
        <5>1. PICK d : d = Declares(i)[k] /\ d = Declares(i)'[k]  BY <4>1
        <5>2. Dealt(i, d) => Dealt(i, d)'  BY <3>1, StillMeant
        <5>3. Pending(i, k) => Pending(i, k)'  BY <2>2 DEF loaderVars, Pending
        <5> QED  BY <5>1, <5>2, <5>3 DEF LoadInv, AllDealt
      <4> QED  BY <2>2, <4>1, <4>2 DEF loaderVars, AllDealt
    <3>4. ComesFrom' /\ Grounded'
      BY <2>2, <3>1, StillFounded DEF LoadInv, loaderVars, ComesFrom, Grounded
    <3>5. Rooted' /\ Nesting'  BY <2>2 DEF LoadInv, loaderVars, Rooted, Nesting
    <3> QED  BY <3>2, <3>3, <3>4, <3>5 DEF LoadInv
  <2> QED  BY <2>1, <2>2
<1> QED  BY <1>1, <1>2, PTL DEF LoaderSpec

-----------------------------------------------------------------------------
(* The modules a program has.                                              *)
LEMMA Least ==
    ASSUME NEW S \in SUBSET Nat, S # {}
    PROVE  \E m \in S : \A n \in S : m <= n
<1>1. PICK m \in S : \A n \in S : <<n, m>> \notin OpToRel(<, Nat)
  BY NatLessThanWellFounded, WFMin
<1>2. \A n \in S : ~(n < m)  BY <1>1 DEF OpToRel
<1> QED  BY <1>2

LEMMA Upwards ==
    ASSUME NEW S \in SUBSET Nat, 0 \in S, \A n \in S : n + 1 \in S
    PROVE  S = Nat
<1> SUFFICES ASSUME Nat \ S # {} PROVE FALSE  OBVIOUS
<1>1. PICK m \in Nat \ S : \A n \in Nat \ S : m <= n  BY Least
<1>2. m # 0 /\ m - 1 \in Nat  OBVIOUS
<1>3. m - 1 \in S  BY <1>1, <1>2
<1> QED  BY <1>2, <1>3

Above(f, n) == IF n = 0 THEN {Node(Root, EntryFile)} ELSE UNION {ChildrenOf(m) : m \in f[n - 1]}

LEMMA LevelIsDefined == Level = [n \in 0..MaxNesting |-> Above(Level, n)]
<1> DEFINE Reached == {k \in Nat : \E f : f = [n \in 0..k |-> Above(f, n)]}
<1>1. 0 \in Reached
  <2> DEFINE f == [n \in 0..0 |-> {Node(Root, EntryFile)}]
  <2>1. f = [n \in 0..0 |-> Above(f, n)]  BY DEF Above
  <2> QED  BY <2>1
<1>2. ASSUME NEW k \in Reached PROVE k + 1 \in Reached
  <2>1. k \in Nat  OBVIOUS
  <2>2. PICK f : f = [n \in 0..k |-> Above(f, n)]  OBVIOUS
  <2> DEFINE g == [n \in 0..k + 1 |-> IF n = k + 1 THEN Above(f, n) ELSE f[n]]
  <2>3. ASSUME NEW n \in 0..k + 1 PROVE g[n] = Above(g, n)
    <3>1. CASE n = 0
      <4>1. g[n] = f[0] /\ f[0] = Above(f, 0)  BY <2>1, <2>2, <3>1
      <4> QED  BY <3>1, <4>1 DEF Above
    <3>2. CASE n # 0
      <4>1. n - 1 \in 0..k /\ g[n - 1] = f[n - 1]  BY <2>1, <3>2
      <4>2. Above(g, n) = Above(f, n)  BY <3>2, <4>1 DEF Above
      <4>3. g[n] = Above(f, n)
        <5>1. CASE n = k + 1  BY <5>1
        <5>2. CASE n # k + 1
          <6>1. n \in 0..k /\ g[n] = f[n]  BY <2>1, <5>2
          <6> QED  BY <2>2, <6>1
        <5> QED  BY <5>1, <5>2
      <4> QED  BY <4>2, <4>3
    <3> QED  BY <3>1, <3>2
  <2>4. g = [n \in 0..k + 1 |-> g[n]]  OBVIOUS
  <2> HIDE DEF g
  <2>5. g = [n \in 0..k + 1 |-> Above(g, n)]  BY <2>3, <2>4
  <2> QED  BY <2>1, <2>5
<1>3. Reached = Nat
  <2> HIDE DEF Reached
  <2>1. Reached \in SUBSET Nat  BY DEF Reached
  <2> QED  BY <1>1, <1>2, <2>1, Upwards
<1>4. \E f : f = [n \in 0..MaxNesting |-> Above(f, n)]
  <2>1. MaxNesting \in Reached  BY <1>3, NestingAssumption
  <2> QED  BY <2>1
<1>5. Level = CHOOSE f : f = [n \in 0..MaxNesting |-> Above(f, n)]  BY DEF Level, Above
<1> QED  BY <1>4, <1>5

(* The modules that are loaded, and whose child each is.                   *)
NodeOf(i) == Node(modules[i].qname, modules[i].source_path)
Loaded == {NodeOf(i) : i \in DOMAIN modules}

LEMMA OfNode ==
    ASSUME Inv, NEW i \in DOMAIN modules
    PROVE  /\ NodeOf(i).qname = modules[i].qname /\ NodeOf(i).source_path = modules[i].source_path
           /\ DeclaredBy(NodeOf(i)) = {Declares(i)[k] : k \in DOMAIN Declares(i)}
           /\ \A d : MeantBy(NodeOf(i), d) = Meant(i, d)
<1>1. NodeOf(i).qname = modules[i].qname /\ NodeOf(i).source_path = modules[i].source_path  BY DEF NodeOf, Node
<1> QED  BY <1>1 DEF DeclaredBy, MeantBy, Declares, Meant

(* A child of a module that is loaded, as LoadsWhatIsDeclared has it.      *)
LEMMA ChildNode ==
    ASSUME Inv, ComesFrom, NEW i \in DOMAIN modules, NEW j \in DOMAIN modules, NEW d \in Declaration,
           d \in DeclaredBy(NodeOf(i)), modules[j].qname = NameIn(i, d)
    PROVE  /\ NodeOf(j) \in ChildrenOf(NodeOf(i))
           /\ NodeOf(j) = Node(Append(NodeOf(i).qname, d), FileMeant(NodeOf(i), d))
<1>1. Meant(i, d) = {modules[j].source_path} /\ OneFile(Meant(i, d))  BY LoadedForIt
<1>2. MeantBy(NodeOf(i), d) = {modules[j].source_path}  BY <1>1, OfNode
<1>3. FileMeant(NodeOf(i), d) = modules[j].source_path  BY <1>2 DEF FileMeant
<1>4. OneFile(MeantBy(NodeOf(i), d))  BY <1>1, OfNode
<1>5. NodeOf(j) = Node(Append(NodeOf(i).qname, d), FileMeant(NodeOf(i), d))
  BY <1>3, OfNode DEF NodeOf, NameIn
<1> QED  BY <1>4, <1>5 DEF ChildrenOf

(* Nothing is loaded that the program does not have.                       *)
LEMMA LoadedInTheirLevel ==
    ASSUME LoadInv
    PROVE  \A i \in DOMAIN modules : NodeOf(i) \in Level[Len(modules[i].qname)]
                                     /\ Len(modules[i].qname) \in 0..MaxNesting
<1>1. Inv /\ Rooted /\ ComesFrom /\ Nesting  BY DEF LoadInv
<1>2. PICK n \in Nat : n = Len(modules) /\ DOMAIN modules = 1..n  BY <1>1, Parsing
<1>3. \A i \in 1..n : Len(modules[i].qname) \in 0..MaxNesting
  <2> TAKE i \in 1..n
  <2>1. modules[i].qname \in Seq(Declaration) /\ Len(modules[i].qname) <= MaxNesting
    BY <1>1, <1>2, Parsing DEF Nesting
  <2> QED  BY <2>1, NestingAssumption
<1> DEFINE Placed(i) == NodeOf(i) \in Level[Len(modules[i].qname)]
           Misplaced == {i \in 1..n : ~Placed(i)}
<1>4. Misplaced = {}
  <2> SUFFICES ASSUME Misplaced # {} PROVE FALSE  OBVIOUS
  <2>1. Misplaced \in SUBSET Nat  OBVIOUS
  <2> HIDE DEF Misplaced
  <2>2. PICK j \in Misplaced : \A i \in Misplaced : j <= i  BY <2>1, Least
  <2>3. j \in 1..n /\ ~Placed(j)  BY <2>2 DEF Misplaced
  <2>4. \A i \in 1..j - 1 : Placed(i)
    <3> TAKE i \in 1..j - 1
    <3>1. i \in 1..n /\ i \in Nat /\ j \in Nat /\ i < j  BY <2>3
    <3>2. i \notin Misplaced  BY <2>2, <3>1
    <3> QED  BY <3>1, <3>2 DEF Misplaced
  <2>5. CASE j = 1
    <3>1. modules # <<>>  BY <1>2, <2>3
    <3>2. NodeOf(j) = Node(Root, EntryFile) /\ Len(modules[j].qname) = 0
      BY <1>1, <2>5, <3>1 DEF Inv, NamesExtend, Rooted, NodeOf, Root
    <3>3. Level[0] = Above(Level, 0)  BY LevelIsDefined, NestingAssumption
    <3> QED  BY <2>3, <3>2, <3>3 DEF Above
  <2>6. CASE j # 1
    <3>1. PICK p \in 1..j - 1 : p = modules[j].parent_id  BY <1>1, <1>2, <2>3, <2>6 DEF Inv, NamesExtend
    <3>2. p \in DOMAIN modules /\ j \in DOMAIN modules  BY <1>2, <2>3, <3>1
    <3>3. PICK k \in DOMAIN Declares(p) : modules[j].qname = NameIn(p, Declares(p)[k])
      BY <1>1, <2>6, <3>1, <3>2 DEF ComesFrom, Comes
    <3>4. PICK d \in Declaration : d = Declares(p)[k]  BY <1>1, <3>2, Parsing
    <3>5. NodeOf(j) \in ChildrenOf(NodeOf(p))  BY <1>1, <3>2, <3>3, <3>4, OfNode, ChildNode
    <3>6. PICK l \in Nat : l = Len(modules[p].qname) /\ Len(modules[j].qname) = l + 1
      <4>1. modules[p].qname \in Seq(Declaration)  BY <1>1, <3>2, Parsing
      <4> QED  BY <3>3, <3>4, <4>1 DEF NameIn
    <3>7. l + 1 \in 0..MaxNesting  BY <1>2, <1>3, <3>2, <3>6
    <3>8. Level[l + 1] = Above(Level, l + 1)  BY <3>7, LevelIsDefined
    <3>9. NodeOf(p) \in Level[l]  BY <2>4, <3>6
    <3>10. NodeOf(j) \in Level[l + 1]  BY <3>5, <3>6, <3>8, <3>9 DEF Above
    <3> QED  BY <2>3, <3>6, <3>10
  <2> QED  BY <2>5, <2>6
<1> QED  BY <1>2, <1>3, <1>4

(* When no scan is left, every module the program has is loaded.           *)
LEMMA LevelsLoaded ==
    ASSUME LoadInv, loading = "done", EntryFile \in DOMAIN tree
    PROVE  \A n \in 0..MaxNesting : Level[n] \subseteq Loaded
<1>1. Inv /\ AllDealt /\ Rooted /\ ComesFrom  BY DEF LoadInv
<1>2. modules # <<>> /\ scans = <<>>  BY <1>1 DEF Rooted
<1>3. 1 \in DOMAIN modules  BY <1>1, <1>2, Parsing
<1> DEFINE Reached == {n \in Nat : n \in 0..MaxNesting => Level[n] \subseteq Loaded}
<1>4. 0 \in Reached
  <2>1. Level[0] = {Node(Root, EntryFile)}  BY LevelIsDefined, NestingAssumption DEF Above
  <2>2. NodeOf(1) = Node(Root, EntryFile)  BY <1>1, <1>2 DEF Inv, NamesExtend, Rooted, NodeOf
  <2> QED  BY <1>3, <2>1, <2>2 DEF Loaded
<1>5. ASSUME NEW n \in Reached PROVE n + 1 \in Reached
  <2> SUFFICES ASSUME n + 1 \in 0..MaxNesting, NEW c \in Level[n + 1] PROVE c \in Loaded
    OBVIOUS
  <2>1. n \in Nat /\ n \in 0..MaxNesting /\ Level[n] \subseteq Loaded  BY NestingAssumption
  <2>2. Level[n + 1] = Above(Level, n + 1)  BY LevelIsDefined
  <2>3. PICK m \in Level[n] : c \in ChildrenOf(m)  BY <2>1, <2>2 DEF Above
  <2>4. PICK i \in DOMAIN modules : m = NodeOf(i)  BY <2>1, <2>3 DEF Loaded
  <2>5. PICK d \in DeclaredBy(m) : OneFile(MeantBy(m, d)) /\ c = Node(Append(m.qname, d), FileMeant(m, d))
    BY <2>3 DEF ChildrenOf
  <2>6. PICK k \in DOMAIN Declares(i) : d = Declares(i)[k]  BY <1>1, <2>4, <2>5, OfNode
  <2>7. d \in Declaration  BY <1>1, <2>6, Parsing
  <2>8. Dealt(i, d)  BY <1>1, <1>2, <2>6 DEF AllDealt, Pending
  <2>9. OneFile(Meant(i, d))  BY <1>1, <2>4, <2>5, OfNode
  <2>10. PICK j \in DOMAIN modules : modules[j].qname = NameIn(i, d)  BY <2>8, <2>9 DEF Dealt
  <2>11. NodeOf(j) = c  BY <1>1, <2>4, <2>5, <2>7, <2>10, ChildNode
  <2> QED  BY <2>10, <2>11 DEF Loaded
<1>6. Reached = Nat
  <2> HIDE DEF Reached
  <2>1. Reached \in SUBSET Nat  BY DEF Reached
  <2> QED  BY <1>4, <1>5, <2>1, Upwards
<1> QED  BY <1>6, NestingAssumption

(* A program is loaded whole, and nothing else: when the loader is done,   *)
(* the modules are those that the entry file declares, directly or by      *)
(* others, however they are nested and repeated, and the errors are one    *)
(* for each declaration that means no file, or two, or one whose path is   *)
(* taken for two (src/src/module.vix, module_graph_build, ml_load_module). *)
THEOREM DeclaredIsLoaded == LoaderSpec => []LoadsWhatIsDeclared
<1>1. LoadInv => LoadsWhatIsDeclared
  <2> SUFFICES ASSUME LoadInv, loading = "done", EntryFile \in DOMAIN tree
               PROVE  /\ Loaded = ProgramModules
                      /\ {errors[e] : e \in DOMAIN errors} = Refusals
    BY DEF LoadsWhatIsDeclared, Loaded, NodeOf
  <2>1. Inv /\ AllDealt /\ Rooted /\ Grounded  BY DEF LoadInv
  <2>2. modules # <<>> /\ scans = <<>>  BY <2>1 DEF Rooted
  <2>3. Loaded = ProgramModules
    <3>1. Loaded \subseteq ProgramModules  BY LoadedInTheirLevel DEF Loaded, ProgramModules
    <3>2. ProgramModules \subseteq Loaded  BY LevelsLoaded DEF ProgramModules
    <3> QED  BY <3>1, <3>2
  <2> DEFINE Reason(m, d) ==
                 [what |-> IF MeantBy(m, d) = {} THEN "not found" ELSE "ambiguous", qname |-> Append(m.qname, d)]
  <2>4. \A i \in DOMAIN modules : \A d : Reason(NodeOf(i), d) = Complaint(i, d)
    BY <2>1, OfNode DEF Complaint, NameIn
  <2>5. \A x : x \in Refusals <=>
            \E m \in ProgramModules : \E d \in DeclaredBy(m) : ~OneFile(MeantBy(m, d)) /\ x = Reason(m, d)
    <3> DEFINE RefusedIn(m) == {Reason(m, d) : d \in {c \in DeclaredBy(m) : ~OneFile(MeantBy(m, c))}}
    <3>1. Refusals = UNION {RefusedIn(m) : m \in ProgramModules}  BY DEF Refusals
    <3>2. \A m, x : x \in RefusedIn(m) <=>
              \E d \in DeclaredBy(m) : ~OneFile(MeantBy(m, d)) /\ x = Reason(m, d)
      <4> HIDE DEF Reason
      <4> QED  OBVIOUS
    <3> HIDE DEF RefusedIn, Reason
    <3> QED  BY <3>1, <3>2
  <2> HIDE DEF Reason
  <2>6. ASSUME NEW e \in DOMAIN errors PROVE errors[e] \in Refusals
    <3>1. PICK i \in DOMAIN modules : \E k \in DOMAIN Declares(i) :
              ~OneFile(Meant(i, Declares(i)[k])) /\ errors[e] = Complaint(i, Declares(i)[k])
      BY <2>1, <2>2 DEF Grounded, Founded
    <3>2. PICK d \in DeclaredBy(NodeOf(i)) : ~OneFile(Meant(i, d)) /\ errors[e] = Complaint(i, d)
      BY <2>1, <3>1, OfNode
    <3>3. ~OneFile(MeantBy(NodeOf(i), d))  BY <2>1, <3>2, OfNode
    <3>4. NodeOf(i) \in ProgramModules  BY <2>3 DEF Loaded
    <3> QED  BY <2>4, <2>5, <3>2, <3>3, <3>4
  <2>7. ASSUME NEW x \in Refusals PROVE \E e \in DOMAIN errors : errors[e] = x
    <3>1. PICK m \in ProgramModules : \E d \in DeclaredBy(m) : ~OneFile(MeantBy(m, d)) /\ x = Reason(m, d)
      BY <2>5
    <3>2. PICK i \in DOMAIN modules : m = NodeOf(i)  BY <2>3, <3>1 DEF Loaded
    <3>3. PICK k \in DOMAIN Declares(i) : LET d == Declares(i)[k] IN ~OneFile(MeantBy(m, d)) /\ x = Reason(m, d)
      BY <2>1, <3>1, <3>2, OfNode
    <3>4. PICK d : d = Declares(i)[k]  OBVIOUS
    <3>5. ~OneFile(Meant(i, d)) /\ x = Complaint(i, d)  BY <2>1, <2>4, <3>2, <3>3, <3>4, OfNode
    <3>6. Dealt(i, d)  BY <2>1, <2>2, <3>4 DEF AllDealt, Pending
    <3> QED  BY <3>5, <3>6 DEF Dealt
  <2> QED  BY <2>3, <2>6, <2>7
<1> QED  BY <1>1, LoadInvHolds, PTL

-----------------------------------------------------------------------------
(* What modules declare that need not be declared twice: the folds of the  *)
(* merge, step by step.                                                    *)
Follows(f, N, Z, base, step) == f \in [0..N -> Z] /\ f[0] = base /\ \A n \in 1..N : f[n] = step[<<n, f[n - 1]>>]

LEMMA StepByStep ==
    ASSUME NEW N \in Nat, NEW Z, NEW base \in Z, NEW step \in [(1..N) \X Z -> Z]
    PROVE  \E f : Follows(f, N, Z, base, step)
<1> DEFINE Upto(f, k) == f \in [0..N -> Z] /\ f[0] = base /\ \A n \in 1..N : n <= k => f[n] = step[<<n, f[n - 1]>>]
           Reached == {k \in Nat : \E f : Upto(f, k)}
<1>1. 0 \in Reached
  <2>1. Upto([n \in 0..N |-> base], 0)  OBVIOUS
  <2> QED  BY <2>1
<1>2. ASSUME NEW k \in Reached PROVE k + 1 \in Reached
  <2>1. PICK f : Upto(f, k)  OBVIOUS
  <2>2. k \in Nat  OBVIOUS
  <2>3. CASE k + 1 > N
    <3>1. Upto(f, k + 1)  BY <2>1, <2>2, <2>3
    <3> QED  BY <2>2, <3>1
  <2>4. CASE k + 1 <= N
    <3> DEFINE v == step[<<k + 1, f[k]>>]
               g == [n \in 0..N |-> IF n = k + 1 THEN v ELSE f[n]]
    <3>1. v \in Z
      <4>1. k + 1 \in 1..N /\ f[k] \in Z  BY <2>1, <2>2, <2>4
      <4> QED  BY <4>1
    <3>2. g \in [0..N -> Z] /\ g[0] = base  BY <2>1, <2>2, <3>1
    <3>3. ASSUME NEW n \in 1..N, n <= k + 1 PROVE g[n] = step[<<n, g[n - 1]>>]
      <4>1. g[n - 1] = f[n - 1]  BY <2>2, <3>3
      <4>2. CASE n = k + 1
        <5>1. n - 1 = k /\ g[n] = v  BY <2>2, <4>2
        <5> QED  BY <4>1, <4>2, <5>1
      <4>3. CASE n # k + 1
        <5>1. n <= k /\ g[n] = f[n]  BY <2>2, <3>3, <4>3
        <5> QED  BY <2>1, <4>1, <5>1
      <4> QED  BY <4>2, <4>3
    <3> HIDE DEF g
    <3>4. Upto(g, k + 1)  BY <3>2, <3>3
    <3> QED  BY <2>2, <3>4
  <2> QED  BY <2>2, <2>3, <2>4
<1>3. Reached = Nat
  <2> HIDE DEF Reached
  <2>1. Reached \in SUBSET Nat  BY DEF Reached
  <2> QED  BY <1>1, <1>2, <2>1, Upwards
<1>4. PICK f : Upto(f, N)  BY <1>3
<1> QED  BY <1>4 DEF Follows

(* What is declared and not yet there is appended.                         *)
LEMMA ExternAdded ==
    ASSUME NEW X, NEW externs \in Seq(X), NEW f \in X
    PROVE  /\ AddExtern(externs, f) \in Seq(X)
           /\ Listed(AddExtern(externs, f)) = Listed(externs) \cup {f}
           /\ Once(externs) => Once(AddExtern(externs, f))
<1>1. CASE f \in Listed(externs)  BY <1>1 DEF AddExtern, Listed
<1>2. CASE f \notin Listed(externs)
  <2> DEFINE e == Append(externs, f)
  <2>1. AddExtern(externs, f) = e  BY <1>2 DEF AddExtern, Listed
  <2>2. e \in Seq(X) /\ DOMAIN e = DOMAIN externs \cup {Len(externs) + 1} /\ e[Len(externs) + 1] = f
    OBVIOUS
  <2>3. \A i \in DOMAIN externs : e[i] = externs[i]  OBVIOUS
  <2> HIDE DEF e
  <2>4. Listed(e) = Listed(externs) \cup {f}
    <3>1. Listed(e) \subseteq Listed(externs) \cup {f}  BY <2>2, <2>3 DEF Listed
    <3>2. f \in Listed(e)  BY <2>2 DEF Listed
    <3>3. Listed(externs) \subseteq Listed(e)  BY <2>2, <2>3 DEF Listed
    <3> QED  BY <3>1, <3>2, <3>3
  <2>5. ASSUME Once(externs) PROVE Once(e)
    <3> SUFFICES ASSUME NEW j \in DOMAIN e, NEW k \in DOMAIN e, e[j] = e[k] PROVE j = k  BY DEF Once
    <3>1. ASSUME NEW i \in DOMAIN externs PROVE e[i] # f  BY <1>2, <2>3 DEF Listed
    <3>2. CASE j \in DOMAIN externs /\ k \in DOMAIN externs  BY <2>3, <2>5, <3>2 DEF Once
    <3>3. CASE j \notin DOMAIN externs \/ k \notin DOMAIN externs  BY <2>2, <3>1, <3>3
    <3> QED  BY <3>2, <3>3
  <2> QED  BY <2>1, <2>2, <2>4, <2>5
<1> QED  BY <1>1, <1>2

LEMMA ExternsAdded ==
    ASSUME NEW X, NEW externs \in Seq(X), NEW own \in Seq(X)
    PROVE  /\ AddExterns(externs, own) \in Seq(X)
           /\ Listed(AddExterns(externs, own)) = Listed(externs) \cup Listed(own)
           /\ Once(externs) => Once(AddExterns(externs, own))
<1> DEFINE N == Len(own)
           step == [p \in (1..N) \X Seq(X) |-> AddExtern(p[2], own[p[1]])]
<1>1. N \in Nat /\ DOMAIN own = 1..N /\ \A n \in 1..N : own[n] \in X  OBVIOUS
<1>2. step \in [(1..N) \X Seq(X) -> Seq(X)]
  <2>1. ASSUME NEW p \in (1..N) \X Seq(X) PROVE AddExtern(p[2], own[p[1]]) \in Seq(X)
    <3>1. p[2] \in Seq(X) /\ own[p[1]] \in X  BY <1>1
    <3> QED  BY <3>1, ExternAdded
  <2> QED  BY <2>1
<1>3. \E f \in [0..N -> Seq(X)] : f[0] = externs /\ \A n \in 1..N : f[n] = step[<<n, f[n - 1]>>]
  <2>1. PICK Z : Z = Seq(X)  OBVIOUS
  <2>2. externs \in Z /\ step \in [(1..N) \X Z -> Z]  BY <1>2, <2>1
  <2> HIDE DEF step, N
  <2>3. \E f : Follows(f, N, Z, externs, step)  BY <1>1, <2>2, StepByStep
  <2> QED  BY <2>1, <2>3 DEF Follows
<1>4. PICK f \in [0..N -> Seq(X)] : f[0] = externs /\ \A n \in 1..N : f[n] = AddExtern(f[n - 1], own[n])
  <2>1. PICK f \in [0..N -> Seq(X)] : f[0] = externs /\ \A n \in 1..N : f[n] = step[<<n, f[n - 1]>>]  BY <1>3
  <2>2. ASSUME NEW n \in 1..N PROVE f[n] = AddExtern(f[n - 1], own[n])
    <3>1. n - 1 \in 0..N  BY <1>1
    <3>2. <<n, f[n - 1]>> \in (1..N) \X Seq(X)  BY <3>1
    <3> QED  BY <2>1, <3>2
  <2> QED  BY <2>1, <2>2
<1>5. f = [n \in 0..N |-> IF n = 0 THEN externs ELSE AddExtern(f[n - 1], own[n])]  BY <1>1, <1>4
<1>6. PICK g : /\ g = [n \in 0..N |-> IF n = 0 THEN externs ELSE AddExtern(g[n - 1], own[n])]
               /\ AddExterns(externs, own) = g[N]
  <2>1. AddExterns(externs, own) =
            (CHOOSE g : g = [n \in 0..N |-> IF n = 0 THEN externs ELSE AddExtern(g[n - 1], own[n])])[N]
    BY DEF AddExterns
  <2> QED  BY <1>5, <2>1
<1> HIDE DEF N, step
<1>7. g[0] = externs /\ \A n \in 1..N : g[n] = AddExtern(g[n - 1], own[n])  BY <1>1, <1>6
<1> DEFINE Good(n) == /\ g[n] \in Seq(X)
                      /\ Listed(g[n]) = Listed(externs) \cup {own[k] : k \in 1..n}
                      /\ Once(externs) => Once(g[n])
           All == {n \in Nat : n <= N => Good(n)}
<1>8. 0 \in All  BY <1>7
<1>9. ASSUME NEW n \in All PROVE n + 1 \in All
  <2> SUFFICES ASSUME n + 1 <= N PROVE Good(n + 1)  OBVIOUS
  <2>0. n \in Nat /\ (n <= N => Good(n))  OBVIOUS
  <2> HIDE DEF Good
  <2>1. n \in Nat /\ Good(n) /\ n + 1 \in 1..N /\ n \in 0..N  BY <1>1, <2>0
  <2>2. g[n + 1] = AddExtern(g[n], own[n + 1])
    <3>1. (n + 1) - 1 = n  BY <2>1
    <3> QED  BY <1>7, <2>1, <3>1
  <2>3. own[n + 1] \in X  BY <1>1, <2>1
  <2>4. {own[k] : k \in 1..n + 1} = {own[k] : k \in 1..n} \cup {own[n + 1]}
    <3>1. 1..n + 1 = (1..n) \cup {n + 1}  BY <2>1
    <3> QED  BY <3>1
  <2> USE DEF Good
  <2>5. /\ g[n + 1] \in Seq(X)
        /\ Listed(g[n + 1]) = Listed(g[n]) \cup {own[n + 1]}
        /\ Once(g[n]) => Once(g[n + 1])
    <3> DEFINE before == g[n]
               last == own[n + 1]
    <3>1. before \in Seq(X) /\ last \in X /\ g[n + 1] = AddExtern(before, last)  BY <2>1, <2>2, <2>3
    <3> HIDE DEF before, last
    <3>2. /\ g[n + 1] \in Seq(X)
          /\ Listed(g[n + 1]) = Listed(before) \cup {last}
          /\ Once(before) => Once(g[n + 1])
      BY <3>1, ExternAdded
    <3> QED  BY <3>2 DEF before, last
  <2> QED  BY <2>1, <2>4, <2>5
<1>10. All = Nat
  <2> HIDE DEF All
  <2>1. All \in SUBSET Nat  BY DEF All
  <2> QED  BY <1>8, <1>9, <2>1, Upwards
<1>11. Good(N)
  <2>1. N \in All  BY <1>1, <1>10
  <2>2. N <= N  BY <1>1
  <2> HIDE DEF Good
  <2> QED  BY <2>1, <2>2
<1> QED  BY <1>1, <1>6, <1>11 DEF Listed
-----------------------------------------------------------------------------
(* The sum types listed are of those seen, one of each name, and a written *)
(* one if there is one.                                                    *)
Adt == [name : STRING, line : Nat, payload : STRING]
Preferred(adts, seen) ==
    \A a \in Listed(adts) : a.line = 0 => \A b \in seen : b.name = a.name => b.line = 0
NamesIn(seen) == {a.name : a \in seen}
Sums(adts, seen) ==
    /\ adts \in Seq(Adt) /\ seen \subseteq Adt
    /\ NamesIn(Listed(adts)) = NamesIn(seen) /\ NamedOnce(adts)
    /\ Listed(adts) \subseteq seen /\ Preferred(adts, seen)

LEMMA AdtAdded ==
    ASSUME NEW adts, NEW seen, Sums(adts, seen), NEW adt \in Adt
    PROVE  Sums(AddAdt(adts, adt), seen \cup {adt})
<1> DEFINE same == {i \in DOMAIN adts : adts[i].name = adt.name}
           r == AddAdt(adts, adt)
<1>1. adts \in Seq(Adt) /\ seen \subseteq Adt /\ DOMAIN adts = 1..Len(adts) /\ Len(adts) \in Nat  BY DEF Sums
<1>2. \A i \in DOMAIN adts : adts[i] \in Adt /\ adts[i] \in seen  BY <1>1 DEF Sums, Listed
<1>3. CASE same = {}
  <2>1. r = Append(adts, adt)  BY <1>3 DEF AddAdt
  <2> DEFINE e == Append(adts, adt)
             N == Len(adts) + 1
  <2>2. e \in Seq(Adt) /\ DOMAIN e = DOMAIN adts \cup {N} /\ e[N] = adt /\ N \notin DOMAIN adts  BY <1>1
  <2>3. \A i \in DOMAIN adts : e[i] = adts[i]  BY <1>1
  <2> HIDE DEF e, N
  <2>4. Listed(e) = Listed(adts) \cup {adt}
    <3>1. Listed(e) \subseteq Listed(adts) \cup {adt}  BY <2>2, <2>3 DEF Listed
    <3>2. adt \in Listed(e)  BY <2>2 DEF Listed
    <3>3. Listed(adts) \subseteq Listed(e)  BY <2>2, <2>3 DEF Listed
    <3> QED  BY <3>1, <3>2, <3>3
  <2>5. NamesIn(Listed(e)) = NamesIn(seen \cup {adt})  BY <2>4 DEF Sums, NamesIn
  <2>6. NamedOnce(e)  BY <1>3, <2>2, <2>3 DEF Sums, NamedOnce
  <2>7. \A b \in seen : b.name # adt.name
    <3>1. adt.name \notin NamesIn(Listed(adts))  BY <1>3 DEF NamesIn, Listed
    <3> QED  BY <3>1 DEF Sums, NamesIn
  <2>8. Preferred(e, seen \cup {adt})
    <3> SUFFICES ASSUME NEW a \in Listed(e), a.line = 0, NEW b \in seen \cup {adt}, b.name = a.name
                 PROVE  b.line = 0
      BY DEF Preferred
    <3>1. CASE a = adt  BY <2>7, <3>1
    <3>2. CASE a \in Listed(adts)
      <4>1. a.name # adt.name  BY <2>7, <3>2 DEF Sums
      <4> QED  BY <3>2, <4>1 DEF Sums, Preferred
    <3> QED  BY <2>4, <3>1, <3>2
  <2> QED  BY <1>1, <2>1, <2>2, <2>4, <2>5, <2>6, <2>8 DEF e, Sums
<1>4. CASE same # {}
  <2>1. PICK i \in same : same = {i}  BY <1>4 DEF Sums, NamedOnce
  <2>2. i = CHOOSE k \in same : \A j \in same : j <= k  BY <1>1, <2>1
  <2>3. r = IF adts[i].line = 0 /\ adt.line > 0 THEN [adts EXCEPT ![i] = adt] ELSE adts
    BY <1>4, <2>2 DEF AddAdt
  <2>4. i \in DOMAIN adts /\ adts[i].name = adt.name /\ adts[i] \in Adt /\ adts[i] \in Listed(adts)
    BY <1>2, <2>1 DEF Listed
  <2>5. NamesIn(seen \cup {adt}) = NamesIn(seen)
    <3>1. adt.name \in NamesIn(seen)  BY <2>4 DEF Sums, NamesIn
    <3> QED  BY <3>1 DEF NamesIn
  <2>6. CASE ~(adts[i].line = 0 /\ adt.line > 0)
    <3>1. r = adts  BY <2>3, <2>6
    <3>2. Preferred(adts, seen \cup {adt})
      <4> SUFFICES ASSUME NEW a \in Listed(adts), a.line = 0, a.name = adt.name PROVE adt.line = 0
        BY DEF Sums, Preferred
      <4>1. a = adts[i]  BY <2>1 DEF Listed
      <4> QED  BY <2>6, <4>1 DEF Adt
    <3> QED  BY <1>1, <2>5, <3>1, <3>2 DEF Sums
  <2>7. CASE adts[i].line = 0 /\ adt.line > 0
    <3> DEFINE e == [adts EXCEPT ![i] = adt]
    <3>1. r = e  BY <2>3, <2>7
    <3>2. e \in Seq(Adt) /\ DOMAIN e = DOMAIN adts /\ e[i] = adt  BY <1>1, <2>4
    <3>3. \A j \in DOMAIN adts : j # i => e[j] = adts[j]  BY <1>1
    <3> HIDE DEF e
    <3>4. \A j \in DOMAIN adts : e[j].name = adts[j].name  BY <2>4, <3>2, <3>3
    <3>5. NamesIn(Listed(e)) = NamesIn(Listed(adts))
      <4>1. \A x : x \in NamesIn(Listed(e)) <=> \E j \in DOMAIN adts : x = e[j].name
        BY <3>2 DEF NamesIn, Listed
      <4>2. \A x : x \in NamesIn(Listed(adts)) <=> \E j \in DOMAIN adts : x = adts[j].name
        BY DEF NamesIn, Listed
      <4>3. ASSUME NEW x PROVE x \in NamesIn(Listed(e)) <=> x \in NamesIn(Listed(adts))
        BY <3>4, <4>1, <4>2
      <4> QED  BY <4>3
    <3>6. NamedOnce(e)  BY <3>2, <3>4 DEF Sums, NamedOnce
    <3>7. Listed(e) \subseteq seen \cup {adt}  BY <1>2, <3>2, <3>3 DEF Listed
    <3>8. Preferred(e, seen \cup {adt})
      <4> SUFFICES ASSUME NEW a \in Listed(e), a.line = 0, NEW b \in seen \cup {adt}, b.name = a.name
                   PROVE  b.line = 0
        BY DEF Preferred
      <4>1. PICK j \in DOMAIN adts : a = e[j]  BY <3>2 DEF Listed
      <4>2. a # adt  BY <2>7
      <4>3. j # i /\ a = adts[j]  BY <3>2, <3>3, <4>1, <4>2
      <4>4. a \in Listed(adts) /\ a.name # adt.name  BY <2>1, <4>1, <4>3 DEF Listed
      <4> QED  BY <4>4 DEF Sums, Preferred
    <3> QED  BY <1>1, <2>5, <3>1, <3>2, <3>5, <3>6, <3>7, <3>8 DEF Sums
  <2> QED  BY <2>6, <2>7
<1> QED  BY <1>3, <1>4

LEMMA AdtTyped ==
    ASSUME NEW adts \in Seq(Adt), NEW adt \in Adt
    PROVE  AddAdt(adts, adt) \in Seq(Adt)
<1>1. ASSUME NEW i PROVE [adts EXCEPT ![i] = adt] \in Seq(Adt)
  <2>1. adts \in [1..Len(adts) -> Adt] /\ Len(adts) \in Nat  OBVIOUS
  <2> HIDE DEF Adt
  <2>2. [adts EXCEPT ![i] = adt] \in [1..Len(adts) -> Adt]  BY <2>1, Zenon
  <2> QED  BY <2>1, <2>2
<1>2. Append(adts, adt) \in Seq(Adt)  OBVIOUS
<1>3. \/ AddAdt(adts, adt) = Append(adts, adt) \/ AddAdt(adts, adt) = adts
      \/ \E i : AddAdt(adts, adt) = [adts EXCEPT ![i] = adt]
  BY Zenon DEF AddAdt
<1> QED  BY <1>1, <1>2, <1>3

LEMMA AdtsAdded ==
    ASSUME NEW adts, NEW seen, Sums(adts, seen), NEW own \in Seq(Adt)
    PROVE  Sums(AddAdts(adts, own), seen \cup Listed(own))
<1> DEFINE N == Len(own)
           step == [p \in (1..N) \X Seq(Adt) |-> AddAdt(p[2], own[p[1]])]
<1>1. N \in Nat /\ DOMAIN own = 1..N /\ (\A n \in 1..N : own[n] \in Adt) /\ adts \in Seq(Adt)  BY DEF Sums
<1>2. step \in [(1..N) \X Seq(Adt) -> Seq(Adt)]
  <2>1. ASSUME NEW p \in (1..N) \X Seq(Adt) PROVE AddAdt(p[2], own[p[1]]) \in Seq(Adt)
    <3>1. p[2] \in Seq(Adt) /\ own[p[1]] \in Adt  BY <1>1
    <3> QED  BY <3>1, AdtTyped
  <2> QED  BY <2>1
<1>3. \E f \in [0..N -> Seq(Adt)] : f[0] = adts /\ \A n \in 1..N : f[n] = step[<<n, f[n - 1]>>]
  <2>1. PICK Z : Z = Seq(Adt)  OBVIOUS
  <2>2. adts \in Z /\ step \in [(1..N) \X Z -> Z]  BY <1>1, <1>2, <2>1
  <2> HIDE DEF step, N
  <2>3. \E f : Follows(f, N, Z, adts, step)  BY <1>1, <2>2, StepByStep
  <2> QED  BY <2>1, <2>3 DEF Follows
<1>4. PICK f \in [0..N -> Seq(Adt)] : f[0] = adts /\ \A n \in 1..N : f[n] = AddAdt(f[n - 1], own[n])
  <2>1. PICK f \in [0..N -> Seq(Adt)] : f[0] = adts /\ \A n \in 1..N : f[n] = step[<<n, f[n - 1]>>]  BY <1>3
  <2>2. ASSUME NEW n \in 1..N PROVE f[n] = AddAdt(f[n - 1], own[n])
    <3>1. n - 1 \in 0..N  BY <1>1
    <3>2. <<n, f[n - 1]>> \in (1..N) \X Seq(Adt)  BY <3>1
    <3> QED  BY <2>1, <3>2
  <2> QED  BY <2>1, <2>2
<1>5. f = [n \in 0..N |-> IF n = 0 THEN adts ELSE AddAdt(f[n - 1], own[n])]  BY <1>1, <1>4
<1>6. PICK g : /\ g = [n \in 0..N |-> IF n = 0 THEN adts ELSE AddAdt(g[n - 1], own[n])]
               /\ AddAdts(adts, own) = g[N]
  <2>1. AddAdts(adts, own) =
            (CHOOSE g : g = [n \in 0..N |-> IF n = 0 THEN adts ELSE AddAdt(g[n - 1], own[n])])[N]
    BY DEF AddAdts
  <2> QED  BY <1>5, <2>1
<1> HIDE DEF N, step
<1>7. g[0] = adts /\ \A n \in 1..N : g[n] = AddAdt(g[n - 1], own[n])  BY <1>1, <1>6
<1> DEFINE Upto(n) == seen \cup {own[k] : k \in 1..n}
           All == {n \in Nat : n <= N => Sums(g[n], Upto(n))}
<1>8. 0 \in All
  <2>1. Upto(0) = seen  OBVIOUS
  <2> QED  BY <1>7, <2>1
<1>9. ASSUME NEW n \in All PROVE n + 1 \in All
  <2> SUFFICES ASSUME n + 1 <= N PROVE Sums(g[n + 1], Upto(n + 1))  OBVIOUS
  <2>1. n \in Nat /\ (n <= N => Sums(g[n], Upto(n)))  OBVIOUS
  <2>2. n + 1 \in 1..N /\ (n + 1) - 1 = n /\ n <= N  BY <1>1, <2>1
  <2>3. g[n + 1] = AddAdt(g[n], own[n + 1]) /\ own[n + 1] \in Adt  BY <1>1, <1>7, <2>2
  <2>4. Upto(n + 1) = Upto(n) \cup {own[n + 1]}
    <3>1. 1..n + 1 = (1..n) \cup {n + 1}  BY <2>1
    <3> QED  BY <3>1
  <2> HIDE DEF Upto
  <2> QED  BY <2>1, <2>2, <2>3, <2>4, AdtAdded
<1>10. All = Nat
  <2> HIDE DEF All
  <2>1. All \in SUBSET Nat  BY DEF All
  <2> QED  BY <1>8, <1>9, <2>1, Upwards
<1>11. Sums(g[N], Upto(N))
  <2> HIDE DEF Upto
  <2>1. N \in Nat /\ N <= N  BY <1>1
  <2>2. \A n \in All : n <= N => Sums(g[n], Upto(n))  OBVIOUS
  <2> HIDE DEF All
  <2> QED  BY <1>10, <2>1, <2>2
<1>12. Upto(N) = seen \cup Listed(own)  BY <1>1 DEF Listed
<1> QED  BY <1>6, <1>11, <1>12

-----------------------------------------------------------------------------
(* The modules that have been merged, and what they declare.               *)
Before(n) == {i \in Taken : i < n}
Seen(n, field) == UNION {Listed(Own(i)[field]) : i \in Before(n)}

MergeStage ==
    /\ parsed \in Contents /\ next \in {0} \cup (2..Len(modules) + 1)
    /\ next # 0 => loading = "done" /\ errors = <<>>
    /\ loading = "done" /\ errors = <<>> => modules # <<>>
Declared ==
    next # 0 =>
        /\ merged.externs \in Seq(STRING) /\ Listed(merged.externs) = Seen(next, "externs")
        /\ Once(Own(1).externs) => Once(merged.externs)
        /\ NamedOnce(Own(1).adts) => Sums(merged.adts, Seen(next, "adts"))
JoinInv == LoadInv /\ MergeStage /\ Declared

LEMMA MergeLoads == MergeSpec => LoaderSpec
<1>1. MergeInit => LoaderInit  BY DEF MergeInit
<1>2. [MergeNext]_<<loaderVars, mergeVars>> => [LoaderNext]_loaderVars
  BY DEF MergeNext, MergeRoot, MergeModule
<1> QED  BY <1>1, <1>2, PTL DEF MergeSpec, LoaderSpec

(* A module that is merged is a file that has parsed.                      *)
LEMMA TakenParsed ==
    ASSUME LoadInv, parsed \in Contents, NEW i \in Taken
    PROVE  /\ i \in DOMAIN modules /\ Own(i).ok /\ Parsed(Own(i))
           /\ Own(i).externs \in Seq(STRING) /\ Own(i).adts \in Seq(Adt)
<1>1. i \in DOMAIN modules /\ modules[i].source_path \in DOMAIN tree /\ tree \in Trees
  <2>1. i \in DOMAIN modules /\ modules \in Seq(Module) /\ tree \in Trees  BY DEF LoadInv, Inv, Typed, Taken
  <2>2. modules[i] \in Module  BY <2>1
  <2> QED  BY <2>1, <2>2 DEF Module
<1>2. modules[i].source_path \in DOMAIN parsed  BY <1>1, ContentsAssumption
<1>3. Own(i).ok
  <2>1. CASE i = 1
    <3>1. modules # <<>>  BY <1>1, <2>1
    <3> QED  BY <2>1, <3>1, ContentsAssumption DEF LoadInv, Rooted, Own
  <2>2. CASE i # 1  BY <2>2 DEF Taken
  <2> QED  BY <2>1, <2>2
<1>4. Parsed(Own(i))  BY <1>2, <1>3, ContentsAssumption DEF Own
<1> QED  BY <1>1, <1>3, <1>4 DEF Parsed, Adt

LEMMA RootTaken ==
    ASSUME LoadInv, modules # <<>>
    PROVE  1 \in Taken /\ modules[1].qname = Root
BY DEF LoadInv, Inv, Typed, NamesExtend, Taken

LEMMA MergedNext ==
    ASSUME JoinInv, MergeModule
    PROVE  /\ next \in DOMAIN modules /\ next \in 2..Len(modules) /\ next' = next + 1
           /\ UNCHANGED <<loaderVars, parsed, Taken>> /\ \A i : UNCHANGED Own(i)
           /\ IF Own(next).ok THEN next \in Taken /\ Before(next + 1) = Before(next) \cup {next}
                                   /\ merged' = Added(merged, modules[next].qname, Own(next))
              ELSE Before(next + 1) = Before(next) /\ merged' = merged
<1>1. modules \in Seq(Module)  BY DEF JoinInv, LoadInv, Inv, Typed
<1>2. next \in DOMAIN modules /\ next \in 2..Len(modules) /\ next' = next + 1
  BY <1>1 DEF MergeModule, JoinInv, MergeStage
<1>3. \A i \in Taken : i \in Nat  BY <1>1 DEF Taken
<1>4. ASSUME NEW i \in Taken PROVE i < next + 1 <=> i < next \/ i = next  BY <1>2, <1>3
<1>5. UNCHANGED <<loaderVars, parsed>>  BY DEF MergeModule
<1>6. UNCHANGED Taken /\ \A i : UNCHANGED Own(i)  BY <1>5 DEF loaderVars, Taken, Own
<1>7. CASE Own(next).ok
  <2>1. next \in Taken  BY <1>2, <1>7 DEF Taken
  <2>2. Before(next + 1) = Before(next) \cup {next}  BY <1>4, <2>1 DEF Before
  <2>3. merged' = Added(merged, modules[next].qname, Own(next))  BY <1>7 DEF MergeModule
  <2> QED  BY <1>2, <1>5, <1>6, <1>7, <2>1, <2>2, <2>3
<1>8. CASE ~Own(next).ok
  <2>1. next \notin Taken  BY <1>2, <1>8 DEF Taken
  <2>2. Before(next + 1) = Before(next)  BY <1>4, <2>1 DEF Before
  <2>3. merged' = merged  BY <1>8 DEF MergeModule
  <2> QED  BY <1>2, <1>5, <1>6, <1>8, <2>2, <2>3
<1> QED  BY <1>7, <1>8

LEMMA StageKept == ASSUME LoadInv, MergeStage, [MergeNext]_<<loaderVars, mergeVars>> PROVE MergeStage'
<1>0. modules \in Seq(Module)  BY DEF LoadInv, Inv, Typed
<1>1. CASE LoaderNext /\ UNCHANGED mergeVars
  <2>1. loading # "done"
    BY <1>1 DEF LoaderNext, CannotRead, BuildRoot, Refuse, FindLoaded, Load, EndScan, AtDeclaration
  <2>2. loading' = "done" /\ errors' = <<>> => modules' # <<>>
    <3>1. CASE CannotRead
      <4>1. errors = <<>>  BY <3>1 DEF CannotRead, LoadInv, Rooted
      <4>2. PICK x : errors' = Append(errors, x)  BY <3>1 DEF CannotRead, ml_add_error
      <4>3. Append(<<>>, x) = <<x>> /\ <<x>> # <<>>  OBVIOUS
      <4> QED  BY <4>1, <4>2, <4>3
    <3>2. CASE EndScan
      <4>1. scans # <<>> /\ scans \in Seq(Scans)  BY <3>2 DEF EndScan, LoadInv, Inv, ScansNest, Typed
      <4>2. 1 \in DOMAIN scans  BY <4>1
      <4>3. scans[1].parent \in DOMAIN modules  BY <4>2 DEF LoadInv, Inv, ScansNest
      <4>4. modules # <<>>  BY <4>3
      <4> QED  BY <3>2, <4>4 DEF EndScan
    <3>3. CASE BuildRoot \/ Refuse \/ FindLoaded \/ Load
      BY <2>1, <3>3 DEF BuildRoot, Refuse, FindLoaded, Load
    <3> QED  BY <1>1, <3>1, <3>2, <3>3 DEF LoaderNext
  <2> QED  BY <1>1, <2>1, <2>2 DEF MergeStage, mergeVars
<1>2. CASE MergeRoot
  <2>1. modules # <<>>  BY <1>2 DEF MergeRoot, MergeStage
  <2> QED  BY <1>0, <1>2, <2>1 DEF MergeRoot, MergeStage, loaderVars
<1>3. CASE MergeModule  BY <1>0, <1>3 DEF MergeModule, MergeStage, loaderVars
<1>4. CASE UNCHANGED <<loaderVars, mergeVars>>  BY <1>4 DEF MergeStage, loaderVars, mergeVars
<1> QED  BY <1>1, <1>2, <1>3, <1>4 DEF MergeNext

LEMMA RootDeclares == ASSUME LoadInv, MergeStage, MergeRoot, MergeStage' PROVE Declared'
<1>1. modules \in Seq(Module) /\ modules # <<>>  BY DEF LoadInv, Inv, Typed, MergeRoot, MergeStage, loaderVars
<1>2. 1 \in Taken /\ parsed \in Contents  BY <1>1, RootTaken DEF MergeStage
<1>3. next' = 2 /\ UNCHANGED Taken /\ \A i : UNCHANGED Own(i)  BY DEF MergeRoot, loaderVars, Taken, Own
<1>4. Before(2)' = {1}
  <2>1. \A i \in Taken : i \in Nat \ {0}  BY <1>1 DEF Taken
  <2> QED  BY <1>2, <1>3, <2>1 DEF Before
<1>5. Seen(2, "externs")' = Listed(Own(1).externs) /\ Seen(2, "adts")' = Listed(Own(1).adts)
  BY <1>3, <1>4 DEF Seen
<1>6. Own(1).externs \in Seq(STRING) /\ Own(1).adts \in Seq(Adt)  BY <1>2, TakenParsed
<1>7. merged'.externs = Own(1).externs /\ merged'.adts = Own(1).adts  BY DEF MergeRoot, Added
<1>8. ASSUME NEW adts \in Seq(Adt), NamedOnce(adts) PROVE Sums(adts, Listed(adts))
  BY <1>8 DEF Sums, Preferred, Listed, NamedOnce
<1> QED  BY <1>3, <1>5, <1>6, <1>7, <1>8 DEF Declared

LEMMA ModuleDeclares == ASSUME JoinInv, MergeModule PROVE Declared'
<1>1. next' # 0 /\ next # 0 /\ next' = next + 1 /\ parsed \in Contents /\ LoadInv
  BY MergedNext DEF JoinInv, MergeStage
<1>2. UNCHANGED Taken /\ \A i : UNCHANGED Own(i)  BY MergedNext
<1>3. \A field : Seen(next, field)' = Seen(next', field)
  BY <1>2 DEF Seen, Before
<1>4. CASE ~Own(next).ok
  <2>1. Before(next + 1) = Before(next) /\ merged' = merged  BY <1>4, MergedNext
  <2>2. \A field : Seen(next, field)' = Seen(next, field)  BY <1>1, <1>3, <2>1 DEF Seen
  <2> QED  BY <1>1, <1>2, <2>1, <2>2 DEF JoinInv, Declared
<1>5. CASE Own(next).ok
  <2>1. next \in Taken /\ Before(next + 1) = Before(next) \cup {next}
        /\ merged' = Added(merged, modules[next].qname, Own(next))
    BY <1>5, MergedNext
  <2>2. \A field : Seen(next, field)' = Seen(next, field) \cup Listed(Own(next)[field])
    BY <1>1, <1>3, <2>1 DEF Seen
  <2>3. Own(next).externs \in Seq(STRING) /\ Own(next).adts \in Seq(Adt)  BY <1>1, <2>1, TakenParsed
  <2>4. merged'.externs = AddExterns(merged.externs, Own(next).externs) /\ merged'.adts = AddAdts(merged.adts, Own(next).adts)
    BY <2>1 DEF Added
  <2>5. /\ merged'.externs \in Seq(STRING) /\ Listed(merged'.externs) = Listed(merged.externs) \cup Listed(Own(next).externs)
        /\ Once(merged.externs) => Once(merged'.externs)
    <3>1. merged.externs \in Seq(STRING)  BY <1>1 DEF JoinInv, Declared
    <3> QED  BY <2>3, <2>4, <3>1, ExternsAdded
  <2>6. Sums(merged.adts, Seen(next, "adts")) => Sums(merged'.adts, Seen(next, "adts") \cup Listed(Own(next).adts))
    BY <2>3, <2>4, AdtsAdded
  <2> QED  BY <1>1, <1>2, <2>2, <2>5, <2>6 DEF JoinInv, Declared
<1> QED  BY <1>4, <1>5

LEMMA JoinKept ==
    ASSUME JoinInv, [MergeNext]_<<loaderVars, mergeVars>>
    PROVE  (MergeStage /\ Declared)'
<1>1. MergeStage'  BY StageKept DEF JoinInv
<1>2. CASE LoaderNext /\ UNCHANGED mergeVars
  <2>1. loading # "done"
    BY <1>2 DEF LoaderNext, CannotRead, BuildRoot, Refuse, FindLoaded, Load, EndScan, AtDeclaration
  <2> QED  BY <1>1, <1>2, <2>1 DEF JoinInv, MergeStage, mergeVars, Declared
<1>3. CASE MergeRoot  BY <1>1, <1>3, RootDeclares DEF JoinInv
<1>4. CASE MergeModule  BY <1>1, <1>4, ModuleDeclares
<1>5. CASE UNCHANGED <<loaderVars, mergeVars>>
  <2>1. UNCHANGED <<next, merged, Taken>> /\ \A i : UNCHANGED Own(i)
    BY <1>5 DEF loaderVars, mergeVars, Taken, Own
  <2>2. \A field : UNCHANGED Seen(next, field)  BY <2>1 DEF Seen, Before
  <2> QED  BY <1>1, <2>1, <2>2 DEF JoinInv, Declared
<1> QED  BY <1>2, <1>3, <1>4, <1>5 DEF MergeNext

(* An external function or a sum type that modules share is declared once  *)
(* in the program, a written type before one the parser made up, whatever  *)
(* the modules and their order: the searches of module_graph_load_all      *)
(* through what is merged so far.                                          *)
THEOREM SharedDeclaredOnce == MergeSpec => []DeclaredOnce
<1>1. MergeInit => MergeStage /\ Declared  BY DEF MergeInit, LoaderInit, MergeStage, Declared
<1>2. JoinInv /\ [MergeNext]_<<loaderVars, mergeVars>> => (MergeStage /\ Declared)'  BY JoinKept
<1>3. JoinInv => DeclaredOnce
  <2> SUFFICES ASSUME JoinInv, Merged, Once(Own(1).externs), NamedOnce(Own(1).adts)
               PROVE  /\ Listed(merged.externs) = Every("externs") /\ Once(merged.externs)
                      /\ {a.name : a \in Listed(merged.adts)} = {a.name : a \in Every("adts")} /\ NamedOnce(merged.adts)
                      /\ Listed(merged.adts) \subseteq Every("adts")
                      /\ \A a \in Listed(merged.adts) : a.line = 0 =>
                            \A b \in Every("adts") : b.name = a.name => b.line = 0
    BY DEF DeclaredOnce
  <2>1. modules \in Seq(Module) /\ next # 0 /\ next > Len(modules)
    BY DEF JoinInv, LoadInv, Inv, Typed, Merged, MergeStage
  <2>2. Before(next) = Taken
    <3>1. \A i \in Taken : i \in 1..Len(modules)  BY <2>1 DEF Taken
    <3> QED  BY <2>1, <3>1 DEF Before, JoinInv, MergeStage
  <2>3. \A field : Seen(next, field) = Every(field)  BY <2>2 DEF Seen, Every
  <2>4. Sums(merged.adts, Every("adts")) /\ Listed(merged.externs) = Every("externs") /\ Once(merged.externs)
    BY <2>1, <2>3 DEF JoinInv, Declared
  <2> QED  BY <2>4 DEF Sums, NamesIn, Preferred
<1> QED  BY <1>1, <1>2, <1>3, MergeLoads, LoadInvHolds, PTL DEF MergeSpec, JoinInv

-----------------------------------------------------------------------------
(* The trees that indices stand for do not depend on where in the arrays   *)
(* their nodes are.                                                        *)
(* Trees, by height.                                                       *)
Stores == {"exprs", "stmts"}
OnTop(p, below, n) ==
    [into \in Stores |-> [i \in Indices(p) |-> IF n = 0 THEN <<"too high">> ELSE Standing(p, below, into, i)]]
OfHeight(p, g, n) == OnTop(p, g[n - 1], n)

LEMMA OnTopAt ==
    ASSUME NEW p, NEW below, NEW n, NEW into \in Stores, NEW i \in Indices(p)
    PROVE  OnTop(p, below, n)[into][i] = IF n = 0 THEN <<"too high">> ELSE Standing(p, below, into, i)
<1> DEFINE here(j) == IF n = 0 THEN <<"too high">> ELSE Standing(p, below, into, j)
<1>1. OnTop(p, below, n)[into] = [j \in Indices(p) |-> here(j)]  BY DEF OnTop
<1> HIDE DEF here
<1>2. OnTop(p, below, n)[into][i] = here(i)  BY <1>1
<1> QED  BY <1>2 DEF here

LEMMA OnTopAbove ==
    ASSUME NEW p, NEW below, NEW n, n # 0, NEW into \in Stores, NEW i \in Indices(p)
    PROVE  OnTop(p, below, n)[into][i] = Standing(p, below, into, i)
BY OnTopAt, Zenon

LEMMA InIndices ==
    ASSUME NEW p, Len(p.exprs) \in Nat, Len(p.stmts) \in Nat, NEW into \in Stores,
           NEW i \in Int, i >= -2, i < Len(p[into]) \/ i < 0
    PROVE  i \in Indices(p)
<1> DEFINE a == Len(p.exprs)
           b == Len(p.stmts)
<1>1. a \in Nat /\ b \in Nat /\ Indices(p) = -2..a + b  BY DEF Indices
<1>2. (i < a \/ i < b) \/ i < 0
  <2>1. CASE into = "exprs"  BY <2>1
  <2>2. CASE into = "stmts"  BY <2>2
  <2> QED  BY <2>1, <2>2 DEF Stores
<1> HIDE DEF a, b
<1> QED  BY <1>1, <1>2

LEMMA HeightsDefined ==
    ASSUME NEW p
    PROVE  \E g : g = [n \in 0..MaxHeight |-> OfHeight(p, g, n)]
<1> DEFINE Reached == {k \in Nat : \E f : f = [n \in 0..k |-> OfHeight(p, f, n)]}
<1>1. 0 \in Reached
  <2> DEFINE f == [n \in 0..0 |-> [into \in Stores |-> [i \in Indices(p) |-> <<"too high">>]]]
  <2>1. f = [n \in 0..0 |-> OfHeight(p, f, n)]  BY DEF OfHeight, OnTop
  <2> QED  BY <2>1
<1>2. ASSUME NEW k \in Reached PROVE k + 1 \in Reached
  <2>1. k \in Nat  OBVIOUS
  <2>2. PICK f : f = [n \in 0..k |-> OfHeight(p, f, n)]  OBVIOUS
  <2> DEFINE g == [n \in 0..k + 1 |-> IF n = k + 1 THEN OfHeight(p, f, n) ELSE f[n]]
  <2>3. ASSUME NEW n \in 0..k + 1 PROVE g[n] = OfHeight(p, g, n)
    <3>1. CASE n = 0
      <4>1. g[n] = f[0] /\ f[0] = OfHeight(p, f, 0)  BY <2>1, <2>2, <3>1
      <4> QED  BY <3>1, <4>1 DEF OfHeight, OnTop
    <3>2. CASE n # 0
      <4>1. n - 1 \in 0..k /\ g[n - 1] = f[n - 1]  BY <2>1, <3>2
      <4>2. OfHeight(p, g, n) = OfHeight(p, f, n)  BY <3>2, <4>1 DEF OfHeight
      <4>3. g[n] = OfHeight(p, f, n)
        <5>1. CASE n = k + 1  BY <5>1
        <5>2. CASE n # k + 1
          <6>1. n \in 0..k /\ g[n] = f[n]  BY <2>1, <5>2
          <6> QED  BY <2>2, <6>1
        <5> QED  BY <5>1, <5>2
      <4> QED  BY <4>2, <4>3
    <3> QED  BY <3>1, <3>2
  <2>4. g = [n \in 0..k + 1 |-> g[n]]  OBVIOUS
  <2> HIDE DEF g
  <2>5. g = [n \in 0..k + 1 |-> OfHeight(p, g, n)]  BY <2>3, <2>4
  <2> QED  BY <2>1, <2>5
<1>3. Reached = Nat
  <2> HIDE DEF Reached
  <2>1. Reached \in SUBSET Nat  BY DEF Reached
  <2> QED  BY <1>1, <1>2, <2>1, Upwards
<1> QED  BY <1>3 DEF MaxHeight

LEMMA Heights ==
    ASSUME NEW p
    PROVE  \E g : /\ Denoted(p) = g[MaxHeight]
                  /\ \A n \in 0..MaxHeight : g[n] = OfHeight(p, g, n)
<1>1. PICK f : f = [n \in 0..MaxHeight |-> OfHeight(p, f, n)]  BY HeightsDefined
<1>2. Denoted(p) = (CHOOSE g : g = [n \in 0..MaxHeight |-> OfHeight(p, g, n)])[MaxHeight]
  BY DEF Denoted, OfHeight, OnTop, Stores
<1>3. PICK g : g = [n \in 0..MaxHeight |-> OfHeight(p, g, n)] /\ Denoted(p) = g[MaxHeight]  BY <1>1, <1>2
<1> QED  BY <1>3

(* One program inside another, its indices moved.                          *)
Shift(i, off) == IF i >= 0 THEN i + off ELSE i
Copied(a, b, eo, so) ==
    /\ b.tag = a.tag /\ b.text = a.text /\ DOMAIN b.refs = DOMAIN a.refs
    /\ \A field \in Followed(a) :
          LET off == IF a.refs[field].into = "exprs" THEN eo ELSE so
          IN  /\ b.refs[field].into = a.refs[field].into
              /\ b.refs[field].at = [k \in DOMAIN a.refs[field].at |-> Shift(a.refs[field].at[k], off)]
Sized(p) == \A into \in Stores : p[into] \in Seq(Listed(p[into]))
Fits(p, node) ==
    InRange(p, node) /\ \A field \in Followed(node) : node.refs[field].into \in Stores /\ node.refs[field].at \in Seq(Int)
Ranges(p) == \A into \in Stores : \A i \in DOMAIN p[into] : Fits(p, p[into][i])
Closed(p) == Sized(p) /\ Ranges(p)
Offset(into, eo, so) == IF into = "exprs" THEN eo ELSE so
Embeds(p, q, eo, so) ==
    \A into \in Stores : \A i \in DOMAIN p[into] :
        /\ i + Offset(into, eo, so) \in DOMAIN q[into]
        /\ Copied(p[into][i], q[into][i + Offset(into, eo, so)], eo, so)

Drawn(node, below) ==
    <<node.tag, node.text, [field \in Followed(node) |->
        [k \in DOMAIN node.refs[field].at |-> below[node.refs[field].into][node.refs[field].at[k]]]]>>
LEMMA StandingNode ==
    ASSUME NEW p, NEW below, NEW into, NEW i \in Int, ~(i < 0), ~(i >= Len(p[into]))
    PROVE  Standing(p, below, into, i) = Drawn(p[into][i + 1], below)
BY DEF Standing, Drawn

LEMMA SameStanding ==
    ASSUME NEW p, NEW q, NEW eo \in Nat, NEW so \in Nat, Closed(p), Sized(q), Embeds(p, q, eo, so),
           NEW f, NEW g,
           \A into \in Stores : \A i \in -2..Len(p[into]) - 1 : g[into][Shift(i, Offset(into, eo, so))] = f[into][i],
           NEW into \in Stores, NEW i \in -2..Len(p[into]) - 1
    PROVE  Standing(q, g, into, Shift(i, Offset(into, eo, so))) = Standing(p, f, into, i)
<1> DEFINE off == Offset(into, eo, so)
<1>1. off \in Nat /\ Len(p[into]) \in Nat /\ DOMAIN p[into] = 1..Len(p[into])
      /\ Len(q[into]) \in Nat /\ DOMAIN q[into] = 1..Len(q[into])
  BY DEF Offset, Closed, Sized
<1>2. CASE i < 0
  <2>1. Shift(i, off) = i  BY <1>2 DEF Shift
  <2>2. Standing(q, g, into, i) = <<"none", i>> /\ Standing(p, f, into, i) = <<"none", i>>  BY <1>2 DEF Standing
  <2> QED  BY <2>1, <2>2
<1>3. CASE i >= 0
  <2> DEFINE a == p[into][i + 1]
             b == q[into][(i + off) + 1]
  <2>1. i + 1 \in DOMAIN p[into] /\ (i + 1) + off = (i + off) + 1  BY <1>1, <1>3
  <2>2. (i + off) + 1 \in DOMAIN q[into] /\ Copied(a, b, eo, so)  BY <2>1 DEF Embeds
  <2>3. i + off >= 0 /\ ~(i + off >= Len(q[into])) /\ ~(i >= Len(p[into]))  BY <1>1, <1>3, <2>2
  <2>4. Shift(i, off) = i + off  BY <1>3 DEF Shift
  <2>5. InRange(p, a) /\ \A field \in Followed(a) : a.refs[field].into \in Stores
    BY <2>1 DEF Closed, Ranges, Fits
  <2> HIDE DEF a, b, off
  <2>6. Followed(b) = Followed(a)  BY <2>2 DEF Copied, Followed
  <2>7. ASSUME NEW field \in Followed(a)
        PROVE  [k \in DOMAIN b.refs[field].at |-> g[b.refs[field].into][b.refs[field].at[k]]] =
               [k \in DOMAIN a.refs[field].at |-> f[a.refs[field].into][a.refs[field].at[k]]]
    <3> DEFINE o == Offset(a.refs[field].into, eo, so)
    <3>1. b.refs[field].into = a.refs[field].into
          /\ b.refs[field].at = [k \in DOMAIN a.refs[field].at |-> Shift(a.refs[field].at[k], o)]
      BY <2>2 DEF Copied, Offset
    <3> HIDE DEF o
    <3>2. ASSUME NEW k \in DOMAIN a.refs[field].at
          PROVE  g[a.refs[field].into][Shift(a.refs[field].at[k], o)] = f[a.refs[field].into][a.refs[field].at[k]]
      BY <2>5 DEF InRange, o
    <3> QED  BY <3>1, <3>2
  <2>8. Standing(q, g, into, i + off) = Drawn(b, g)
    <3>1. i + off \in Int /\ ~(i + off < 0)  BY <1>1, <1>3
    <3> DEFINE x == i + off
    <3> HIDE DEF x
    <3>2. Standing(q, g, into, x) = Drawn(q[into][x + 1], g)  BY <2>3, <3>1, StandingNode DEF x
    <3> QED  BY <3>2 DEF x, b
  <2>9. Standing(p, f, into, i) = Drawn(a, f)  BY <1>3, <2>3, StandingNode DEF a
  <2>10. [field \in Followed(b) |-> [k \in DOMAIN b.refs[field].at |-> g[b.refs[field].into][b.refs[field].at[k]]]] =
         [field \in Followed(a) |-> [k \in DOMAIN a.refs[field].at |-> f[a.refs[field].into][a.refs[field].at[k]]]]
    BY <2>6, <2>7, Zenon
  <2>11. b.tag = a.tag /\ b.text = a.text  BY <2>2 DEF Copied
  <2> QED  BY <2>4, <2>8, <2>9, <2>10, <2>11 DEF off, Drawn
<1> QED  BY <1>2, <1>3

LEMMA SameTrees ==
    ASSUME NEW p, NEW q, NEW eo \in Nat, NEW so \in Nat, Closed(p), Sized(q), Embeds(p, q, eo, so),
           NEW into \in Stores, NEW i \in -2..Len(p[into]) - 1
    PROVE  Denoted(q)[into][Shift(i, Offset(into, eo, so))] = Denoted(p)[into][i]
<1>1. PICK f : Denoted(p) = f[MaxHeight] /\ \A n \in 0..MaxHeight : f[n] = OfHeight(p, f, n)  BY Heights
<1>2. PICK g : Denoted(q) = g[MaxHeight] /\ \A n \in 0..MaxHeight : g[n] = OfHeight(q, g, n)  BY Heights
<1> DEFINE Same(n) ==
        \A s \in Stores : \A j \in -2..Len(p[s]) - 1 : g[n][s][Shift(j, Offset(s, eo, so))] = f[n][s][j]
<1>3. ASSUME NEW s \in Stores, NEW j \in -2..Len(p[s]) - 1
      PROVE  j \in Indices(p) /\ Shift(j, Offset(s, eo, so)) \in Indices(q)
  <2>1. \A t \in Stores : Len(p[t]) \in Nat /\ Len(q[t]) \in Nat /\ DOMAIN p[t] = 1..Len(p[t]) /\ DOMAIN q[t] = 1..Len(q[t])
    BY DEF Closed, Sized
  <2>2. "exprs" \in Stores /\ "stmts" \in Stores  BY DEF Stores
  <2>3. Len(p.exprs) \in Nat /\ Len(p.stmts) \in Nat /\ Len(q.exprs) \in Nat /\ Len(q.stmts) \in Nat  BY <2>1, <2>2
  <2>5. Offset(s, eo, so) \in Nat  BY DEF Offset
  <2>6. CASE j < 0
    <3>1. j \in Int /\ j >= -2  BY <2>1
    <3>2. Shift(j, Offset(s, eo, so)) = j  BY <2>6 DEF Shift
    <3> QED  BY <2>3, <2>6, <3>1, <3>2, InIndices
  <2>7. CASE j >= 0
    <3>1. j + 1 \in DOMAIN p[s]  BY <2>1, <2>7
    <3>2. (j + 1) + Offset(s, eo, so) \in DOMAIN q[s]  BY <3>1 DEF Embeds
    <3>3. j + Offset(s, eo, so) < Len(q[s])  BY <2>1, <2>5, <3>2
    <3>4. Shift(j, Offset(s, eo, so)) = j + Offset(s, eo, so)  BY <2>7 DEF Shift
    <3>5. j \in Int /\ j < Len(p[s])  BY <2>1
    <3> DEFINE x == Shift(j, Offset(s, eo, so))
    <3>6. x \in Int /\ x >= 0 /\ x < Len(q[s])  BY <2>5, <2>7, <3>3, <3>4, <3>5
    <3> HIDE DEF x
    <3>7. x \in Indices(q)  BY <2>3, <3>6, InIndices
    <3>8. j \in Indices(p)  BY <2>3, <2>7, <3>5, InIndices
    <3> QED  BY <3>7, <3>8 DEF x
  <2> QED  BY <2>1, <2>6, <2>7
<1> DEFINE All == {n \in Nat : n <= MaxHeight => Same(n)}
<1>4. 0 \in All
  <2>1. f[0] = OfHeight(p, f, 0) /\ g[0] = OfHeight(q, g, 0)  BY <1>1, <1>2 DEF MaxHeight
  <2>2. ASSUME NEW s \in Stores, NEW j \in -2..Len(p[s]) - 1
        PROVE  g[0][s][Shift(j, Offset(s, eo, so))] = f[0][s][j]
    <3> DEFINE below == f[0 - 1]
               above == g[0 - 1]
    <3>1. f[0] = OnTop(p, below, 0) /\ g[0] = OnTop(q, above, 0)  BY <2>1 DEF OfHeight
    <3> HIDE DEF below, above
    <3>2. OnTop(p, below, 0)[s][j] = <<"too high">>  BY <1>3, OnTopAt
    <3>3. OnTop(q, above, 0)[s][Shift(j, Offset(s, eo, so))] = <<"too high">>  BY <1>3, OnTopAt
    <3> QED  BY <3>1, <3>2, <3>3
  <2> QED  BY <2>2
<1>5. ASSUME NEW n \in All PROVE n + 1 \in All
  <2> SUFFICES ASSUME n + 1 <= MaxHeight PROVE Same(n + 1)  OBVIOUS
  <2>1. n \in Nat /\ (n <= MaxHeight => Same(n))  OBVIOUS
  <2>2. n <= MaxHeight /\ n + 1 \in 0..MaxHeight /\ (n + 1) - 1 = n /\ n + 1 # 0  BY <2>1 DEF MaxHeight
  <2>3. f[n + 1] = OfHeight(p, f, n + 1) /\ g[n + 1] = OfHeight(q, g, n + 1)  BY <1>1, <1>2, <2>2
  <2>4. Same(n)  BY <2>1, <2>2
  <2>5. ASSUME NEW s \in Stores, NEW j \in -2..Len(p[s]) - 1
        PROVE  g[n + 1][s][Shift(j, Offset(s, eo, so))] = f[n + 1][s][j]
    <3> DEFINE x == Shift(j, Offset(s, eo, so))
               lower == f[n]
               under == g[n]
               m == n + 1
    <3>00. m # 0  BY <2>2
    <3>0. f[n + 1] = OnTop(p, lower, n + 1) /\ g[n + 1] = OnTop(q, under, n + 1)  BY <2>2, <2>3 DEF OfHeight
    <3>1. f[n + 1][s][j] = Standing(p, lower, s, j)
      <4> HIDE DEF lower, m
      <4>1. OnTop(p, lower, m)[s][j] = Standing(p, lower, s, j)  BY <1>3, <3>00, OnTopAbove
      <4> QED  BY <3>0, <4>1 DEF m
    <3>2. g[n + 1][s][x] = Standing(q, under, s, x)
      <4>1. x \in Indices(q)  BY <1>3
      <4> HIDE DEF under, x, m
      <4>2. OnTop(q, under, m)[s][x] = Standing(q, under, s, x)  BY <3>00, <4>1, OnTopAbove
      <4> QED  BY <3>0, <4>2 DEF m
    <3>3. \A t \in Stores : \A k \in -2..Len(p[t]) - 1 : under[t][Shift(k, Offset(t, eo, so))] = lower[t][k]
      BY <2>4
    <3>4. Standing(q, under, s, x) = Standing(p, lower, s, j)
      <4> HIDE DEF under, lower
      <4> QED  BY <3>3, SameStanding
    <3> QED  BY <3>1, <3>2, <3>4
  <2> QED  BY <2>5
<1>6. All = Nat
  <2> HIDE DEF All
  <2>1. All \in SUBSET Nat  BY DEF All
  <2> QED  BY <1>4, <1>5, <2>1, Upwards
<1>7. Same(MaxHeight)
  <2>1. MaxHeight \in Nat /\ MaxHeight <= MaxHeight  BY DEF MaxHeight
  <2>2. \A n \in All : n <= MaxHeight => Same(n)  OBVIOUS
  <2> HIDE DEF All, Same
  <2> QED  BY <1>6, <2>1, <2>2
<1> QED  BY <1>1, <1>2, <1>7

-----------------------------------------------------------------------------
LEMMA RemappedCopies ==
    ASSUME NEW node, NEW toExpr, NEW toStmt, NEW eo \in Nat, NEW so \in Nat,
           node = Ast(node.tag, node.text, node.refs),
           node.refs \in [DOMAIN node.refs -> [into : Stores, at : Seq(Int)]],
           \A field \in Followed(node) :
              \/ node.refs[field].into = "exprs" /\ field \in toExpr
              \/ node.refs[field].into = "stmts" /\ field \in toStmt /\ field \notin toExpr
    PROVE  Copied(node, Remapped(node, toExpr, toStmt, eo, so), eo, so)
<1> DEFINE b == Remapped(node, toExpr, toStmt, eo, so)
           new(field) == IF field \in toExpr THEN Moved(node, field, eo)
                         ELSE IF field \in toStmt THEN Moved(node, field, so)
                         ELSE node.refs[field]
<1>1. b = [node EXCEPT !.refs = [field \in DOMAIN node.refs |-> new(field)]]  BY DEF Remapped
<1>2. b.tag = node.tag /\ b.text = node.text /\ b.refs = [field \in DOMAIN node.refs |-> new(field)]
  <2> HIDE DEF new, b
  <2> QED  BY <1>1 DEF Ast
<1>3. ASSUME NEW field \in Followed(node), NEW off \in Nat
      PROVE  /\ Moved(node, field, off).into = node.refs[field].into
             /\ Moved(node, field, off).at = [k \in DOMAIN node.refs[field].at |-> Shift(node.refs[field].at[k], off)]
  <2>1. field \in DOMAIN node.refs  BY DEF Followed
  <2>2. node.refs[field] \in [into : Stores, at : Seq(Int)]  BY <2>1
  <2> DEFINE r == node.refs[field]
  <2>3. Moved(node, field, off) = [r EXCEPT !.at = [i \in DOMAIN r.at |-> IF r.at[i] >= 0 THEN r.at[i] + off ELSE r.at[i]]]
    BY DEF Moved
  <2> HIDE DEF r
  <2> QED  BY <2>2, <2>3 DEF r, Shift
<1>4. ASSUME NEW field \in Followed(node)
      PROVE  LET off == IF node.refs[field].into = "exprs" THEN eo ELSE so
             IN  /\ b.refs[field].into = node.refs[field].into
                 /\ b.refs[field].at = [k \in DOMAIN node.refs[field].at |-> Shift(node.refs[field].at[k], off)]
  <2>1. field \in DOMAIN node.refs  BY DEF Followed
  <2>2. b.refs[field] = new(field)  BY <1>2, <2>1
  <2> HIDE DEF b
  <2>3. CASE node.refs[field].into = "exprs" /\ field \in toExpr
    <3>1. b.refs[field] = Moved(node, field, eo)  BY <2>2, <2>3
    <3> QED  BY <1>3, <2>3, <3>1
  <2>4. CASE node.refs[field].into = "stmts" /\ field \in toStmt /\ field \notin toExpr
    <3>1. b.refs[field] = Moved(node, field, so)  BY <2>2, <2>4
    <3> QED  BY <1>3, <2>4, <3>1
  <2> QED  BY <2>3, <2>4
<1> QED  BY <1>2, <1>4 DEF Copied

LEMMA ExprFields ==
    ASSUME NEW node, NEW kind \in ExprsMade, OfKind(node, kind)
    PROVE  /\ node.tag # "return"
           /\ IF node.tag = "block_expr"
              THEN \A field \in DOMAIN node.refs :
                      \/ field = "right" /\ node.refs[field].into = "exprs"
                      \/ field = "left" /\ node.refs[field].into = "stmts"
              ELSE \A field \in DOMAIN node.refs :
                      field \in {"left", "right", "args"} /\ node.refs[field].into = "exprs"
<1>1. node.tag = kind.tag /\ DOMAIN node.refs = DOMAIN kind.refs
      /\ \A field \in DOMAIN kind.refs : node.refs[field].into = kind.refs[field].into
  BY DEF OfKind
<1> USE DEF Ast, InExprs, InStmts
<1>2. CASE kind = ast_expr_ident("x")  BY <1>1, <1>2 DEF ast_expr_ident
<1>3. CASE kind = ast_expr_binop(0, 0)  BY <1>1, <1>3 DEF ast_expr_binop
<1>4. CASE kind = ast_expr_call("f", <<>>)  BY <1>1, <1>4 DEF ast_expr_call
<1>5. CASE kind = ast_expr_if(0, 0, 0)  BY <1>1, <1>5 DEF ast_expr_if
<1>6. CASE kind = ast_expr_match(0, <<>>)  BY <1>1, <1>6 DEF ast_expr_match
<1>7. CASE kind = ast_expr_block_value(0, 0)  BY <1>1, <1>7 DEF ast_expr_block_value
<1> QED  BY <1>2, <1>3, <1>4, <1>5, <1>6, <1>7 DEF ExprsMade

LEMMA StmtFields ==
    ASSUME NEW node, NEW kind \in StmtsMade, OfKind(node, kind), node.tag # "return", NEW field \in DOMAIN node.refs
    PROVE  \/ node.refs[field].into = "exprs" /\ field \in ToExprs(node.tag)
           \/ node.refs[field].into = "stmts" /\ field \in ToStmts(node.tag) /\ field \notin ToExprs(node.tag)
<1>1. node.tag = kind.tag /\ DOMAIN node.refs = DOMAIN kind.refs
      /\ \A x \in DOMAIN kind.refs : node.refs[x].into = kind.refs[x].into
  BY DEF OfKind
<1> USE DEF Ast, InExprs, InStmts, ToExprs, ToStmts
<1>2. CASE kind = ast_stmt_return(0)  BY <1>1, <1>2 DEF ast_stmt_return
<1>3. CASE kind = ast_stmt_return_expr(0)  BY <1>1, <1>3 DEF ast_stmt_return_expr
<1>4. CASE kind = ast_stmt_let("x", 0)  BY <1>1, <1>4 DEF ast_stmt_let
<1>5. CASE kind = ast_stmt_assign("x", 0)  BY <1>1, <1>5 DEF ast_stmt_assign
<1>6. CASE kind = ast_stmt_store_deref(0, 0)  BY <1>1, <1>6 DEF ast_stmt_store_deref
<1>7. CASE kind = ast_stmt_field_assign(0, 0)  BY <1>1, <1>7 DEF ast_stmt_field_assign
<1>8. CASE kind = ast_stmt_store_index(0, 0, 0)  BY <1>1, <1>8 DEF ast_stmt_store_index
<1>9. CASE kind = ast_stmt_print(0)  BY <1>1, <1>9 DEF ast_stmt_print
<1>10. CASE kind = ast_stmt_expr(0)  BY <1>1, <1>10 DEF ast_stmt_expr
<1>11. CASE kind = ast_stmt_match(0, <<>>, <<>>)  BY <1>1, <1>11 DEF ast_stmt_match
<1>12. CASE kind = ast_stmt_block_indices(<<>>)  BY <1>1, <1>12 DEF ast_stmt_block_indices
<1>13. CASE kind = ast_stmt_while(0, 0)  BY <1>1, <1>13 DEF ast_stmt_while
<1>14. CASE kind = ast_stmt_for_range("i", 0, 0, 0)  BY <1>1, <1>14 DEF ast_stmt_for_range
<1>15. CASE kind = ast_stmt_if(0, 0, 0)  BY <1>1, <1>15 DEF ast_stmt_if
<1> QED  BY <1>2, <1>3, <1>4, <1>5, <1>6, <1>7, <1>8, <1>9, <1>10, <1>11, <1>12, <1>13, <1>14, <1>15 DEF StmtsMade
LEMMA ExprCopied ==
    ASSUME NEW node, NEW kind \in ExprsMade, OfKind(node, kind), NEW eo \in Nat, NEW so \in Nat
    PROVE  Copied(node, module_merge_expr(node, eo, so), eo, so)
<1>1. node = Ast(node.tag, node.text, node.refs) /\ node.refs \in [DOMAIN node.refs -> [into : Stores, at : Seq(Int)]]
  BY DEF OfKind, Stores
<1>2. node.tag # "return" /\ Followed(node) = DOMAIN node.refs  BY ExprFields DEF Followed
<1>3. CASE node.tag = "block_expr"
  <2>1. \A field \in Followed(node) :
            \/ node.refs[field].into = "exprs" /\ field \in {"right"}
            \/ node.refs[field].into = "stmts" /\ field \in {"left"} /\ field \notin {"right"}
    BY <1>2, <1>3, ExprFields
  <2>2. module_merge_expr(node, eo, so) = Remapped(node, {"right"}, {"left"}, eo, so)  BY <1>3 DEF module_merge_expr
  <2> QED  BY <1>1, <2>1, <2>2, RemappedCopies
<1>4. CASE node.tag # "block_expr"
  <2>1. \A field \in Followed(node) :
            \/ node.refs[field].into = "exprs" /\ field \in {"left", "right", "args"}
            \/ node.refs[field].into = "stmts" /\ field \in {} /\ field \notin {"left", "right", "args"}
    BY <1>2, <1>4, ExprFields
  <2>2. module_merge_expr(node, eo, so) = Remapped(node, {"left", "right", "args"}, {}, eo, so)
    BY <1>4 DEF module_merge_expr
  <2> QED  BY <1>1, <2>1, <2>2, RemappedCopies
<1> QED  BY <1>3, <1>4

LEMMA StmtCopied ==
    ASSUME NEW node, NEW kind \in StmtsMade, OfKind(node, kind), NEW eo \in Nat, NEW so \in Nat
    PROVE  Copied(node, module_merge_stmt(node, eo, so), eo, so)
<1>1. node = Ast(node.tag, node.text, node.refs) /\ node.refs \in [DOMAIN node.refs -> [into : Stores, at : Seq(Int)]]
  BY DEF OfKind, Stores
<1>2. \A field \in Followed(node) :
          \/ node.refs[field].into = "exprs" /\ field \in ToExprs(node.tag)
          \/ node.refs[field].into = "stmts" /\ field \in ToStmts(node.tag) /\ field \notin ToExprs(node.tag)
  BY StmtFields DEF Followed
<1> QED  BY <1>1, <1>2, RemappedCopies DEF module_merge_stmt

LEMMA KindFits ==
    ASSUME NEW p, NEW node, NEW kind, OfKind(node, kind), InRange(p, node)
    PROVE  Fits(p, node)
<1>1. \A field \in DOMAIN node.refs : node.refs[field] \in [into : Stores, at : Seq(Int)]  BY DEF OfKind, Stores
<1> QED  BY <1>1 DEF Fits, Followed

LEMMA CopyFits ==
    ASSUME NEW p, NEW q, NEW a, NEW b, NEW eo \in Nat, NEW so \in Nat, Copied(a, b, eo, so), Fits(p, a),
           \A into \in Stores : Len(p[into]) \in Nat /\ Len(q[into]) \in Nat
                                 /\ Len(p[into]) + Offset(into, eo, so) <= Len(q[into])
    PROVE  Fits(q, b)
<1>1. Followed(b) = Followed(a)  BY DEF Copied, Followed
<1>2. ASSUME NEW field \in Followed(a)
      PROVE  /\ b.refs[field].into \in Stores /\ b.refs[field].at \in Seq(Int)
             /\ \A k \in DOMAIN b.refs[field].at : b.refs[field].at[k] \in -2..Len(q[b.refs[field].into]) - 1
  <2> DEFINE into == a.refs[field].into
             at == a.refs[field].at
             off == Offset(into, eo, so)
  <2>1. into \in Stores /\ at \in Seq(Int) /\ \A k \in DOMAIN at : at[k] \in -2..Len(p[into]) - 1
    BY DEF Fits, InRange
  <2>2. b.refs[field].into = into /\ b.refs[field].at = [k \in DOMAIN at |-> Shift(at[k], off)]
    BY DEF Copied, Offset
  <2>3. Len(p[into]) \in Nat /\ Len(q[into]) \in Nat /\ off \in Nat /\ Len(p[into]) + off <= Len(q[into])
    BY <2>1 DEF Offset
  <2> DEFINE small == Len(p[into])
             large == Len(q[into])
  <2> HIDE DEF into, at, off, small, large
  <2>4. ASSUME NEW k \in DOMAIN at PROVE Shift(at[k], off) \in -2..large - 1 /\ Shift(at[k], off) \in Int
    <3>1. at[k] \in -2..small - 1 /\ small \in Nat /\ large \in Nat /\ small + off <= large  BY <2>1, <2>3 DEF small, large
    <3> QED  BY <2>3, <3>1 DEF Shift
  <2>5. [k \in DOMAIN at |-> Shift(at[k], off)] \in Seq(Int)  BY <2>1, <2>4
  <2> QED  BY <2>1, <2>2, <2>4, <2>5 DEF large
<1> QED  BY <1>1, <1>2 DEF Fits, InRange

LEMMA SelfCopied ==
    ASSUME NEW p, NEW a, Fits(p, a)
    PROVE  Copied(a, a, 0, 0)
<1>1. ASSUME NEW field \in Followed(a)
      PROVE  a.refs[field].at = [k \in DOMAIN a.refs[field].at |-> Shift(a.refs[field].at[k], 0)]
  <2> DEFINE at == a.refs[field].at
  <2>1. at \in Seq(Int)  BY DEF Fits
  <2> HIDE DEF at
  <2>2. \A k \in DOMAIN at : Shift(at[k], 0) = at[k]  BY <2>1 DEF Shift
  <2>3. at = [k \in DOMAIN at |-> at[k]]  BY <2>1
  <2>4. at = [k \in DOMAIN at |-> Shift(at[k], 0)]  BY <2>2, <2>3
  <2> QED  BY <2>4 DEF at
<1> QED  BY <1>1 DEF Copied

LEMMA JoinedLists ==
    ASSUME NEW a, NEW b, a \in Seq(Listed(a)), b \in Seq(Listed(b))
    PROVE  /\ a \o b \in Seq(Listed(a \o b))
           /\ Len(a \o b) = Len(a) + Len(b) /\ Len(a) \in Nat /\ Len(b) \in Nat
           /\ DOMAIN a = 1..Len(a) /\ DOMAIN b = 1..Len(b) /\ DOMAIN (a \o b) = 1..Len(a) + Len(b)
           /\ \A i \in DOMAIN a : (a \o b)[i] = a[i]
           /\ \A i \in DOMAIN b : i + Len(a) \in DOMAIN (a \o b) /\ (a \o b)[i + Len(a)] = b[i]
<1> DEFINE A == Listed(a)
           B == Listed(b)
           C == A \cup B
<1> HIDE DEF A, B
<1>1. a \in Seq(C) /\ b \in Seq(C)  BY DEF A, B
<1> HIDE DEF C
<1> DEFINE c == a \o b
<1>2. c \in Seq(C) /\ Len(c) = Len(a) + Len(b) /\ Len(a) \in Nat /\ Len(b) \in Nat
      /\ DOMAIN a = 1..Len(a) /\ DOMAIN b = 1..Len(b) /\ DOMAIN c = 1..Len(a) + Len(b)
  BY <1>1
<1>3. \A i \in DOMAIN a : c[i] = a[i]  BY <1>1
<1>4. \A i \in DOMAIN b : i + Len(a) \in DOMAIN c /\ c[i + Len(a)] = b[i]  BY <1>1
<1> HIDE DEF c
<1>5. c \in Seq(Listed(c))  BY <1>2 DEF Listed
<1> QED  BY <1>2, <1>3, <1>4, <1>5 DEF c

-----------------------------------------------------------------------------
(* A program with the parts of another behind it.                          *)
MovedInto(own, into, eo, so) ==
    IF into = "exprs" THEN module_merge_exprs(own.exprs, eo, so) ELSE module_merge_stmts(own.stmts, eo, so)
Extends(q, p, own) ==
    /\ q.exprs = p.exprs \o module_merge_exprs(own.exprs, Len(p.exprs), Len(p.stmts))
    /\ q.stmts = p.stmts \o module_merge_stmts(own.stmts, Len(p.exprs), Len(p.stmts))

LEMMA ParsedCloses ==
    ASSUME NEW own, Parsed(own)
    PROVE  Closed(own)
<1>1. ASSUME NEW into \in Stores, NEW i \in DOMAIN own[into] PROVE Fits(own, own[into][i])
  <2>1. CASE into = "exprs"
    <3>1. PICK kind \in ExprsMade : OfKind(own.exprs[i], kind)  BY <2>1 DEF Parsed
    <3>2. InRange(own, own.exprs[i])  BY <2>1 DEF Parsed
    <3> QED  BY <2>1, <3>1, <3>2, KindFits
  <2>2. CASE into = "stmts"
    <3>1. PICK kind \in StmtsMade : OfKind(own.stmts[i], kind)  BY <2>2 DEF Parsed
    <3>2. InRange(own, own.stmts[i])  BY <2>2 DEF Parsed
    <3> QED  BY <2>2, <3>1, <3>2, KindFits
  <2> QED  BY <2>1, <2>2 DEF Stores
<1>2. \A into \in Stores : own[into] \in Seq(Listed(own[into]))
  <2>1. own.exprs \in Seq(Listed(own.exprs)) /\ own.stmts \in Seq(Listed(own.stmts))  BY DEF Parsed
  <2> QED  BY <2>1 DEF Stores
<1> QED  BY <1>1, <1>2 DEF Closed, Ranges, Sized

LEMMA MovedCopies ==
    ASSUME NEW own, Parsed(own), NEW eo \in Nat, NEW so \in Nat, NEW into \in Stores
    PROVE  /\ MovedInto(own, into, eo, so) \in Seq(Listed(MovedInto(own, into, eo, so)))
           /\ Len(MovedInto(own, into, eo, so)) = Len(own[into])
           /\ \A i \in DOMAIN own[into] : Copied(own[into][i], MovedInto(own, into, eo, so)[i], eo, so)
<1> DEFINE m == MovedInto(own, into, eo, so)
<1>0. own[into] \in Seq(Listed(own[into]))  BY ParsedCloses DEF Closed, Sized
<1>1. DOMAIN m = DOMAIN own[into] /\ m = [i \in DOMAIN own[into] |-> m[i]]
      /\ \A i \in DOMAIN own[into] : Copied(own[into][i], m[i], eo, so)
  <2>1. CASE into = "exprs"
    <3>1. m = [i \in DOMAIN own.exprs |-> module_merge_expr(own.exprs[i], eo, so)]
      BY <2>1 DEF MovedInto, module_merge_exprs
    <3> HIDE DEF m
    <3>2. ASSUME NEW i \in DOMAIN own.exprs PROVE Copied(own.exprs[i], m[i], eo, so)
      <4>1. PICK kind \in ExprsMade : OfKind(own.exprs[i], kind)  BY DEF Parsed
      <4> QED  BY <3>1, <4>1, ExprCopied
    <3>3. DOMAIN m = DOMAIN own.exprs /\ m = [i \in DOMAIN own.exprs |-> m[i]]  BY <3>1
    <3> QED  BY <2>1, <3>2, <3>3
  <2>2. CASE into = "stmts"
    <3>1. m = [i \in DOMAIN own.stmts |-> module_merge_stmt(own.stmts[i], eo, so)]
      BY <2>2 DEF MovedInto, module_merge_stmts
    <3> HIDE DEF m
    <3>2. ASSUME NEW i \in DOMAIN own.stmts PROVE Copied(own.stmts[i], m[i], eo, so)
      <4>1. PICK kind \in StmtsMade : OfKind(own.stmts[i], kind)  BY DEF Parsed
      <4> QED  BY <3>1, <4>1, StmtCopied
    <3>3. DOMAIN m = DOMAIN own.stmts /\ m = [i \in DOMAIN own.stmts |-> m[i]]  BY <3>1
    <3> QED  BY <2>2, <3>2, <3>3
  <2> QED  BY <2>1, <2>2 DEF Stores
<1> DEFINE d == own[into]
<1> HIDE DEF m, d
<1>2. Len(d) \in Nat /\ DOMAIN d = 1..Len(d)  BY <1>0 DEF d
<1>3. m \in [1..Len(d) -> Listed(m)]
  <2>1. \A i \in DOMAIN m : m[i] \in Listed(m)  BY DEF Listed
  <2> QED  BY <1>1, <1>2, <2>1 DEF d
<1>4. m \in Seq(Listed(m)) /\ Len(m) = Len(d)  BY <1>2, <1>3
<1> QED  BY <1>1, <1>4 DEF m, d

LEMMA Extended ==
    ASSUME NEW p, NEW own, NEW q, Closed(p), Parsed(own), Extends(q, p, own)
    PROVE  /\ Closed(q) /\ Embeds(p, q, 0, 0) /\ Embeds(own, q, Len(p.exprs), Len(p.stmts))
           /\ Len(p.exprs) \in Nat /\ Len(p.stmts) \in Nat
           /\ \A into \in Stores : Len(p[into]) \in Nat /\ Len(own[into]) \in Nat /\ Len(q[into]) = Len(p[into]) + Len(own[into])
<1> DEFINE eo == Len(p.exprs)
           so == Len(p.stmts)
           m(into) == MovedInto(own, into, eo, so)
<1>1. p.exprs \in Seq(Listed(p.exprs)) /\ p.stmts \in Seq(Listed(p.stmts))
  <2>1. "exprs" \in Stores /\ "stmts" \in Stores  BY DEF Stores
  <2> QED  BY <2>1 DEF Closed, Sized
<1>2. eo \in Nat /\ so \in Nat
  <2> DEFINE a == p.exprs
             b == p.stmts
  <2>1. a \in Seq(Listed(a)) /\ b \in Seq(Listed(b))  BY <1>1
  <2> HIDE DEF a, b
  <2>2. Len(a) \in Nat /\ Len(b) \in Nat  BY <2>1
  <2> QED  BY <2>2 DEF a, b
<1>3. \A into \in Stores : q[into] = p[into] \o m(into)
  BY DEF Extends, MovedInto, Stores
<1>4. \A into \in Stores : Offset(into, eo, so) = Len(p[into])
  BY DEF Offset, Stores
<1> HIDE DEF eo, so
<1>5. \A into \in Stores :
          /\ m(into) \in Seq(Listed(m(into))) /\ Len(m(into)) = Len(own[into])
          /\ \A i \in DOMAIN own[into] : Copied(own[into][i], m(into)[i], eo, so)
  BY <1>2, MovedCopies
<1>6. Closed(own)  BY ParsedCloses
<1> HIDE DEF m
<1>7. ASSUME NEW into \in Stores
      PROVE  /\ q[into] \in Seq(Listed(q[into]))
             /\ Len(p[into]) \in Nat /\ Len(own[into]) \in Nat /\ Len(q[into]) = Len(p[into]) + Len(own[into])
             /\ DOMAIN p[into] = 1..Len(p[into]) /\ DOMAIN own[into] = 1..Len(own[into])
             /\ DOMAIN q[into] = 1..Len(p[into]) + Len(own[into])
             /\ \A i \in DOMAIN p[into] : q[into][i] = p[into][i]
             /\ \A i \in DOMAIN own[into] : i + Len(p[into]) \in DOMAIN q[into] /\ q[into][i + Len(p[into])] = m(into)[i]
  <2> DEFINE a == p[into]
             b == m(into)
             c == q[into]
             d == own[into]
  <2>1. a \in Seq(Listed(a)) /\ b \in Seq(Listed(b)) /\ c = a \o b /\ d \in Seq(Listed(d)) /\ Len(b) = Len(d)
    BY <1>3, <1>5, <1>6 DEF Closed, Sized
  <2> HIDE DEF a, b, c, d
  <2>20. /\ a \o b \in Seq(Listed(a \o b))
         /\ Len(a \o b) = Len(a) + Len(b) /\ Len(a) \in Nat /\ Len(b) \in Nat
         /\ DOMAIN a = 1..Len(a) /\ DOMAIN b = 1..Len(b) /\ DOMAIN (a \o b) = 1..Len(a) + Len(b)
         /\ \A i \in DOMAIN a : (a \o b)[i] = a[i]
         /\ \A i \in DOMAIN b : i + Len(a) \in DOMAIN (a \o b) /\ (a \o b)[i + Len(a)] = b[i]
    <3>1. a \in Seq(Listed(a)) /\ b \in Seq(Listed(b))  BY <2>1
    <3> QED  BY ONLY <3>1, JoinedLists
  <2>2. /\ c \in Seq(Listed(c))
        /\ Len(c) = Len(a) + Len(b) /\ Len(a) \in Nat /\ Len(b) \in Nat
        /\ DOMAIN a = 1..Len(a) /\ DOMAIN b = 1..Len(b) /\ DOMAIN c = 1..Len(a) + Len(b)
        /\ \A i \in DOMAIN a : c[i] = a[i]
        /\ \A i \in DOMAIN b : i + Len(a) \in DOMAIN c /\ c[i + Len(a)] = b[i]
    BY <2>1, <2>20, Zenon
  <2>3. DOMAIN d = DOMAIN b  BY <2>1, <2>2
  <2> QED  BY <2>1, <2>2, <2>3 DEF a, b, c, d
<1>8. Embeds(own, q, eo, so)
  <2> SUFFICES ASSUME NEW into \in Stores, NEW i \in DOMAIN own[into]
               PROVE  /\ i + Offset(into, eo, so) \in DOMAIN q[into]
                      /\ Copied(own[into][i], q[into][i + Offset(into, eo, so)], eo, so)
    BY DEF Embeds
  <2> QED  BY <1>4, <1>5, <1>7
<1>9. ASSUME NEW into \in Stores, NEW i \in DOMAIN p[into]
      PROVE  q[into][i] = p[into][i] /\ Copied(p[into][i], q[into][i], 0, 0) /\ Fits(p, p[into][i]) /\ i \in DOMAIN q[into]
  <2> DEFINE n == Len(p[into])
             l == Len(own[into])
             D == DOMAIN q[into]
  <2>0. n \in Nat /\ l \in Nat /\ i \in 1..n /\ D = 1..n + l /\ q[into][i] = p[into][i]  BY <1>7
  <2> HIDE DEF n, l, D
  <2>00. i \in D  BY <2>0
  <2>1. q[into][i] = p[into][i] /\ i \in DOMAIN q[into]  BY <2>0, <2>00 DEF D
  <2>2. Fits(p, p[into][i])  BY DEF Closed, Ranges
  <2> QED  BY <2>1, <2>2, SelfCopied
<1>10. Embeds(p, q, 0, 0)
  <2> SUFFICES ASSUME NEW into \in Stores, NEW i \in DOMAIN p[into]
               PROVE  i + Offset(into, 0, 0) \in DOMAIN q[into] /\ Copied(p[into][i], q[into][i + Offset(into, 0, 0)], 0, 0)
    BY DEF Embeds
  <2>0. i \in 1..Len(p[into])  BY <1>7
  <2>1. Offset(into, 0, 0) = 0 /\ i \in Nat  BY <2>0 DEF Offset
  <2>2. i + Offset(into, 0, 0) = i  BY <2>1
  <2> QED  BY <1>9, <2>2
<1>11. ASSUME NEW into \in Stores, NEW i \in DOMAIN q[into] PROVE Fits(q, q[into][i])
  <2>0. Len(p[into]) \in Nat /\ Len(own[into]) \in Nat /\ i \in 1..Len(p[into]) + Len(own[into])  BY <1>7
  <2>1. CASE i <= Len(p[into])
    <3>1. i \in DOMAIN p[into]  BY <1>7, <2>0, <2>1
    <3>2. \A s \in Stores : Len(p[s]) \in Nat /\ Len(q[s]) \in Nat /\ Len(p[s]) + Offset(s, 0, 0) <= Len(q[s])
      <4> SUFFICES ASSUME NEW s \in Stores
                   PROVE  Len(p[s]) \in Nat /\ Len(q[s]) \in Nat /\ Len(p[s]) + Offset(s, 0, 0) <= Len(q[s])
        OBVIOUS
      <4> DEFINE n == Len(p[s])
                 l == Len(own[s])
                 t == Len(q[s])
      <4>1. n \in Nat /\ l \in Nat /\ t = n + l  BY <1>7
      <4>2. Offset(s, 0, 0) = 0  BY DEF Offset
      <4> HIDE DEF n, l, t
      <4>3. t \in Nat /\ n + 0 <= t  BY <4>1
      <4> QED  BY <4>1, <4>2, <4>3 DEF n, t
    <3> QED  BY <1>9, <3>1, <3>2, CopyFits
  <2>2. CASE i > Len(p[into])
    <3> DEFINE j == i - Len(p[into])
    <3>1. j \in 1..Len(own[into]) /\ j + Len(p[into]) = i
      <4> DEFINE n == Len(p[into])
                 l == Len(own[into])
      <4>1. n \in Nat /\ l \in Nat /\ i \in 1..n + l /\ i > n  BY <2>0, <2>2
      <4> HIDE DEF n, l
      <4>2. i - n \in 1..l /\ (i - n) + n = i  BY <4>1
      <4> QED  BY <4>2 DEF n, l
    <3> HIDE DEF j
    <3>2. j \in DOMAIN own[into] /\ Fits(own, own[into][j])  BY <1>6, <1>7, <3>1 DEF Closed, Ranges
    <3>3. Copied(own[into][j], q[into][i], eo, so)  BY <1>5, <1>7, <3>1, <3>2
    <3>4. \A s \in Stores : Len(own[s]) \in Nat /\ Len(q[s]) \in Nat /\ Len(own[s]) + Offset(s, eo, so) <= Len(q[s])
      <4> SUFFICES ASSUME NEW s \in Stores
                   PROVE  Len(own[s]) \in Nat /\ Len(q[s]) \in Nat /\ Len(own[s]) + Offset(s, eo, so) <= Len(q[s])
        OBVIOUS
      <4> DEFINE n == Len(p[s])
                 l == Len(own[s])
                 t == Len(q[s])
      <4>1. n \in Nat /\ l \in Nat /\ t = n + l /\ Offset(s, eo, so) = n  BY <1>4, <1>7
      <4> HIDE DEF n, l, t
      <4>2. t \in Nat /\ l + n <= t  BY <4>1
      <4> QED  BY <4>1, <4>2 DEF l, t
    <3> QED  BY <1>2, <3>2, <3>3, <3>4, CopyFits
  <2> QED  BY <2>0, <2>1, <2>2
<1>12. Closed(q)  BY <1>7, <1>11 DEF Closed, Sized, Ranges
<1> QED  BY <1>2, <1>7, <1>8, <1>10, <1>12 DEF eo, so

-----------------------------------------------------------------------------
(* What the functions of a program mean, under their names.                *)
FunctionsEntry(qname, f, off) == [name |-> Named(qname, f.name), body |-> IF f.body >= 0 THEN f.body + off ELSE f.body]
MeanFunctions(p) == {<<p.functions[k].name, BodyTree(p, p.functions[k])>> : k \in DOMAIN p.functions}
OwnFunctions(qname, own) == {<<Named(qname, own.functions[k].name), BodyTree(own, own.functions[k])>> : k \in DOMAIN own.functions}
ListingFunctions(p) ==
    /\ p.functions \in Seq(Listed(p.functions))
    /\ \A k \in DOMAIN p.functions : p.functions[k].body \in -2..Len(p.stmts) - 1

FunctionsAdded(q, p, qname, own) ==
    q.functions = p.functions \o [k \in DOMAIN own.functions |-> FunctionsEntry(qname, own.functions[k], Len(p.stmts))]

LEMMA FunctionsJoin ==
    ASSUME NEW p, NEW own, NEW q, NEW qname, Closed(p), Parsed(own), Extends(q, p, own), ListingFunctions(p),
           FunctionsAdded(q, p, qname, own)
    PROVE  ListingFunctions(q) /\ MeanFunctions(q) = MeanFunctions(p) \cup OwnFunctions(qname, own)
<1> DEFINE a == p.functions
           d == own.functions
           off == Len(p.stmts)
           b == [k \in DOMAIN d |-> FunctionsEntry(qname, d[k], off)]
           c == q.functions
           old == Len(p.stmts)
           len == Len(own.stmts)
           new == Len(q.stmts)
<1>1. d \in Seq([name : STRING, body : -2..len - 1])  BY DEF Parsed
<1>2. a \in Seq(Listed(a)) /\ c = a \o b /\ \A k \in DOMAIN a : a[k].body \in -2..old - 1  BY DEF ListingFunctions, FunctionsAdded
<1>3. /\ Closed(q) /\ Closed(own) /\ Embeds(p, q, 0, 0) /\ Embeds(own, q, Len(p.exprs), Len(p.stmts))
      /\ Len(p.exprs) \in Nat /\ Len(p.stmts) \in Nat
  BY Extended, ParsedCloses
<1>4. old \in Nat /\ len \in Nat /\ new = old + len /\ off = old /\ "stmts" \in Stores
  BY Extended DEF Stores
<1>5. \A k \in DOMAIN p.functions : BodyTree(p, p.functions[k]) = Denoted(p)["stmts"][a[k].body]  BY DEF BodyTree
<1>6. ASSUME NEW i \in -2..old - 1 PROVE Denoted(q)["stmts"][i] = Denoted(p)["stmts"][i]
  <2>1. Shift(i, Offset("stmts", 0, 0)) = i  BY <1>4 DEF Shift, Offset
  <2>2. Sized(q)  BY <1>3 DEF Closed
  <2>3. Denoted(q)["stmts"][Shift(i, Offset("stmts", 0, 0))] = Denoted(p)["stmts"][i]
    BY <1>3, <1>4, <2>2, SameTrees
  <2> QED  BY <2>1, <2>3
<1>7. ASSUME NEW i \in -2..len - 1 PROVE Denoted(q)["stmts"][Shift(i, off)] = Denoted(own)["stmts"][i]
  <2>1. Offset("stmts", Len(p.exprs), Len(p.stmts)) = off  BY DEF Offset
  <2>2. Sized(q)  BY <1>3 DEF Closed
  <2> DEFINE eo == Len(p.exprs)
             so == Len(p.stmts)
  <2>3. eo \in Nat /\ so \in Nat /\ Embeds(own, q, eo, so)  BY <1>3
  <2> HIDE DEF eo, so
  <2>4. Denoted(q)["stmts"][Shift(i, Offset("stmts", eo, so))] = Denoted(own)["stmts"][i]
    BY <1>3, <1>4, <2>2, <2>3, SameTrees
  <2> QED  BY <2>1, <2>4 DEF eo, so
<1> HIDE DEF old, len, new, off
<1>8. ASSUME NEW k \in DOMAIN d
      PROVE  /\ b[k].name = Named(qname, d[k].name) /\ b[k].body = Shift(d[k].body, off)
             /\ d[k].body \in -2..len - 1 /\ b[k].body \in -2..new - 1
  <2> DEFINE R == -2..len - 1
  <2>0. d \in Seq([name : STRING, body : R])  BY <1>1
  <2>1. d[k].body \in -2..len - 1
    <3>0. k \in DOMAIN d /\ DOMAIN d = 1..Len(d)  BY <1>1
    <3>00. PICK Z : Z = [name : STRING, body : R]  OBVIOUS
    <3> HIDE DEF R, d
    <3>01. d \in Seq(Z)  BY <2>0, <3>00
    <3>1. d[k] \in Z  BY <3>0, <3>01
    <3> QED  BY <3>00, <3>1 DEF R
  <2>2. b[k] = FunctionsEntry(qname, d[k], off)  OBVIOUS
  <2>3. b[k].name = Named(qname, d[k].name) /\ b[k].body = Shift(d[k].body, off)  BY <2>2 DEF FunctionsEntry, Shift
  <2>4. Shift(d[k].body, off) \in -2..new - 1  BY <1>4, <2>1 DEF Shift
  <2> QED  BY <2>1, <2>3, <2>4
<1>9. DOMAIN b = DOMAIN d /\ b \in Seq(Listed(b))
  <2> DEFINE R == -2..len - 1
  <2>0. d \in Seq([name : STRING, body : R])  BY <1>1
  <2>1. d \in Seq(Listed(d))
    <3> HIDE DEF R, d
    <3> QED  BY <2>0 DEF Listed
  <2>2. DOMAIN b = DOMAIN d /\ b = [k \in DOMAIN d |-> b[k]]  OBVIOUS
  <2> HIDE DEF b, d
  <2>3. \A k \in DOMAIN d : b[k] \in Listed(b)  BY <2>2 DEF Listed
  <2>4. DOMAIN d = 1..Len(d) /\ Len(d) \in Nat  BY <2>1
  <2>5. b \in [1..Len(d) -> Listed(b)]  BY <2>2, <2>3, <2>4
  <2> QED  BY <2>2, <2>4, <2>5
<1> HIDE DEF a, b, c, d
<1>10. /\ c \in Seq(Listed(c)) /\ Len(a) \in Nat /\ Len(b) \in Nat
       /\ DOMAIN a = 1..Len(a) /\ DOMAIN b = 1..Len(b) /\ DOMAIN c = 1..Len(a) + Len(b)
       /\ \A i \in DOMAIN a : c[i] = a[i]
       /\ \A i \in DOMAIN b : i + Len(a) \in DOMAIN c /\ c[i + Len(a)] = b[i]
  <2>1. /\ a \o b \in Seq(Listed(a \o b))
        /\ Len(a \o b) = Len(a) + Len(b) /\ Len(a) \in Nat /\ Len(b) \in Nat
        /\ DOMAIN a = 1..Len(a) /\ DOMAIN b = 1..Len(b) /\ DOMAIN (a \o b) = 1..Len(a) + Len(b)
        /\ \A i \in DOMAIN a : (a \o b)[i] = a[i]
        /\ \A i \in DOMAIN b : i + Len(a) \in DOMAIN (a \o b) /\ (a \o b)[i + Len(a)] = b[i]
    <3>1. a \in Seq(Listed(a)) /\ b \in Seq(Listed(b))  BY <1>2, <1>9
    <3> QED  BY ONLY <3>1, JoinedLists
  <2>2. c = a \o b  BY <1>2
  <2> QED  BY <2>1, <2>2, Zenon
<1>11. ASSUME NEW k \in DOMAIN c
       PROVE  \/ k \in DOMAIN a /\ c[k] = a[k]
              \/ \E i \in DOMAIN b : k = i + Len(a) /\ c[k] = b[i]
  <2> DEFINE n == Len(a)
             l == Len(b)
  <2>0. n \in Nat /\ l \in Nat /\ k \in 1..n + l /\ DOMAIN a = 1..n /\ DOMAIN b = 1..l  BY <1>10
  <2>1. CASE k <= Len(a)
    <3>1. k \in DOMAIN a
      <4> HIDE DEF n, l
      <4> QED  BY <2>0, <2>1 DEF n
    <3> QED  BY <1>10, <3>1
  <2>2. CASE k > Len(a)
    <3>1. k - Len(a) \in DOMAIN b /\ k = (k - Len(a)) + Len(a)
      <4>1. k > n  BY <2>2
      <4> HIDE DEF n, l
      <4>2. k - n \in 1..l /\ k = (k - n) + n  BY <2>0, <4>1
      <4> QED  BY <2>0, <4>2 DEF n
    <3> QED  BY <1>10, <3>1
  <2> QED
    <3> HIDE DEF n, l
    <3>1. k <= n \/ k > n  BY <2>0
    <3> QED  BY <2>1, <2>2, <3>1 DEF n
<1>12. \A k \in DOMAIN c : c[k].body \in -2..new - 1
  <2> TAKE k \in DOMAIN c
  <2>1. CASE k \in DOMAIN a /\ c[k] = a[k]
    <3>1. a[k].body \in -2..old - 1  BY <1>2, <2>1
    <3> QED  BY <1>4, <2>1, <3>1
  <2>2. CASE \E i \in DOMAIN b : k = i + Len(a) /\ c[k] = b[i]  BY <1>8, <1>9, <2>2
  <2> QED  BY <1>11, <2>1, <2>2
<1>13. ListingFunctions(q)  BY <1>10, <1>12 DEF ListingFunctions, c, new
<1>14. ASSUME NEW k \in DOMAIN a PROVE BodyTree(q, a[k]) = BodyTree(p, a[k])
  BY <1>2, <1>6, <1>14 DEF BodyTree
<1>15. ASSUME NEW k \in DOMAIN d PROVE BodyTree(q, b[k]) = BodyTree(own, d[k])
  BY <1>7, <1>8, <1>15 DEF BodyTree
<1>16. ASSUME NEW x PROVE x \in MeanFunctions(q) <=> x \in MeanFunctions(p) \/ x \in OwnFunctions(qname, own)
  <2>1. x \in MeanFunctions(q) <=> \E k \in DOMAIN c : x = <<c[k].name, BodyTree(q, c[k])>>  BY DEF MeanFunctions, c
  <2>2. x \in MeanFunctions(p) <=> \E k \in DOMAIN a : x = <<a[k].name, BodyTree(p, a[k])>>  BY DEF MeanFunctions, a
  <2>3. x \in OwnFunctions(qname, own) <=> \E k \in DOMAIN d : x = <<Named(qname, d[k].name), BodyTree(own, d[k])>>
    BY DEF OwnFunctions, d
  <2>4. \A k \in DOMAIN a : k \in DOMAIN c /\ c[k] = a[k]
    <3> DEFINE n == Len(a)
               l == Len(b)
    <3>1. n \in Nat /\ l \in Nat /\ DOMAIN a = 1..n /\ DOMAIN c = 1..n + l  BY <1>10
    <3> HIDE DEF n, l
    <3>2. \A k \in DOMAIN a : k \in DOMAIN c  BY <3>1
    <3> QED  BY <1>10, <3>2
  <2>5. ASSUME x \in MeanFunctions(q) PROVE x \in MeanFunctions(p) \/ x \in OwnFunctions(qname, own)
    <3>1. PICK k \in DOMAIN c : x = <<c[k].name, BodyTree(q, c[k])>>  BY <2>1, <2>5
    <3>2. CASE k \in DOMAIN a /\ c[k] = a[k]  BY <1>14, <2>2, <3>1, <3>2
    <3>3. CASE \E i \in DOMAIN b : k = i + Len(a) /\ c[k] = b[i]
      <4>1. PICK i \in DOMAIN d : c[k] = b[i]  BY <1>9, <3>3
      <4> QED  BY <1>8, <1>15, <2>3, <3>1, <4>1
    <3> QED  BY <1>11, <3>2, <3>3
  <2>6. ASSUME x \in MeanFunctions(p) PROVE x \in MeanFunctions(q)
    <3>1. PICK k \in DOMAIN a : x = <<a[k].name, BodyTree(p, a[k])>>  BY <2>2, <2>6
    <3> QED  BY <1>14, <2>1, <2>4, <3>1
  <2>7. ASSUME x \in OwnFunctions(qname, own) PROVE x \in MeanFunctions(q)
    <3>1. PICK k \in DOMAIN d : x = <<Named(qname, d[k].name), BodyTree(own, d[k])>>  BY <2>3, <2>7
    <3>2. k + Len(a) \in DOMAIN c /\ c[k + Len(a)] = b[k]  BY <1>9, <1>10
    <3> QED  BY <1>8, <1>15, <2>1, <3>1, <3>2
  <2> QED  BY <2>5, <2>6, <2>7
<1> QED  BY <1>13, <1>16

(* What the variables of a program mean, under their names.                *)
GlobalsEntry(qname, f, off) == [name |-> Named(qname, f.name), value |-> IF f.value >= 0 THEN f.value + off ELSE f.value]
MeanGlobals(p) == {<<p.globals[k].name, ValueTree(p, p.globals[k])>> : k \in DOMAIN p.globals}
OwnGlobals(qname, own) == {<<Named(qname, own.globals[k].name), ValueTree(own, own.globals[k])>> : k \in DOMAIN own.globals}
ListingGlobals(p) ==
    /\ p.globals \in Seq(Listed(p.globals))
    /\ \A k \in DOMAIN p.globals : p.globals[k].value \in -2..Len(p.exprs) - 1

GlobalsAdded(q, p, qname, own) ==
    q.globals = p.globals \o [k \in DOMAIN own.globals |-> GlobalsEntry(qname, own.globals[k], Len(p.exprs))]

LEMMA GlobalsJoin ==
    ASSUME NEW p, NEW own, NEW q, NEW qname, Closed(p), Parsed(own), Extends(q, p, own), ListingGlobals(p),
           GlobalsAdded(q, p, qname, own)
    PROVE  ListingGlobals(q) /\ MeanGlobals(q) = MeanGlobals(p) \cup OwnGlobals(qname, own)
<1> DEFINE a == p.globals
           d == own.globals
           off == Len(p.exprs)
           b == [k \in DOMAIN d |-> GlobalsEntry(qname, d[k], off)]
           c == q.globals
           old == Len(p.exprs)
           len == Len(own.exprs)
           new == Len(q.exprs)
<1>1. d \in Seq([name : STRING, value : -2..len - 1])  BY DEF Parsed
<1>2. a \in Seq(Listed(a)) /\ c = a \o b /\ \A k \in DOMAIN a : a[k].value \in -2..old - 1  BY DEF ListingGlobals, GlobalsAdded
<1>3. /\ Closed(q) /\ Closed(own) /\ Embeds(p, q, 0, 0) /\ Embeds(own, q, Len(p.exprs), Len(p.stmts))
      /\ Len(p.exprs) \in Nat /\ Len(p.stmts) \in Nat
  BY Extended, ParsedCloses
<1>4. old \in Nat /\ len \in Nat /\ new = old + len /\ off = old /\ "exprs" \in Stores
  BY Extended DEF Stores
<1>5. \A k \in DOMAIN p.globals : ValueTree(p, p.globals[k]) = Denoted(p)["exprs"][a[k].value]  BY DEF ValueTree
<1>6. ASSUME NEW i \in -2..old - 1 PROVE Denoted(q)["exprs"][i] = Denoted(p)["exprs"][i]
  <2>1. Shift(i, Offset("exprs", 0, 0)) = i  BY <1>4 DEF Shift, Offset
  <2>2. Sized(q)  BY <1>3 DEF Closed
  <2>3. Denoted(q)["exprs"][Shift(i, Offset("exprs", 0, 0))] = Denoted(p)["exprs"][i]
    BY <1>3, <1>4, <2>2, SameTrees
  <2> QED  BY <2>1, <2>3
<1>7. ASSUME NEW i \in -2..len - 1 PROVE Denoted(q)["exprs"][Shift(i, off)] = Denoted(own)["exprs"][i]
  <2>1. Offset("exprs", Len(p.exprs), Len(p.stmts)) = off  BY DEF Offset
  <2>2. Sized(q)  BY <1>3 DEF Closed
  <2> DEFINE eo == Len(p.exprs)
             so == Len(p.stmts)
  <2>3. eo \in Nat /\ so \in Nat /\ Embeds(own, q, eo, so)  BY <1>3
  <2> HIDE DEF eo, so
  <2>4. Denoted(q)["exprs"][Shift(i, Offset("exprs", eo, so))] = Denoted(own)["exprs"][i]
    BY <1>3, <1>4, <2>2, <2>3, SameTrees
  <2> QED  BY <2>1, <2>4 DEF eo, so
<1> HIDE DEF old, len, new, off
<1>8. ASSUME NEW k \in DOMAIN d
      PROVE  /\ b[k].name = Named(qname, d[k].name) /\ b[k].value = Shift(d[k].value, off)
             /\ d[k].value \in -2..len - 1 /\ b[k].value \in -2..new - 1
  <2> DEFINE R == -2..len - 1
  <2>0. d \in Seq([name : STRING, value : R])  BY <1>1
  <2>1. d[k].value \in -2..len - 1
    <3>0. k \in DOMAIN d /\ DOMAIN d = 1..Len(d)  BY <1>1
    <3>00. PICK Z : Z = [name : STRING, value : R]  OBVIOUS
    <3> HIDE DEF R, d
    <3>01. d \in Seq(Z)  BY <2>0, <3>00
    <3>1. d[k] \in Z  BY <3>0, <3>01
    <3> QED  BY <3>00, <3>1 DEF R
  <2>2. b[k] = GlobalsEntry(qname, d[k], off)  OBVIOUS
  <2>3. b[k].name = Named(qname, d[k].name) /\ b[k].value = Shift(d[k].value, off)  BY <2>2 DEF GlobalsEntry, Shift
  <2>4. Shift(d[k].value, off) \in -2..new - 1  BY <1>4, <2>1 DEF Shift
  <2> QED  BY <2>1, <2>3, <2>4
<1>9. DOMAIN b = DOMAIN d /\ b \in Seq(Listed(b))
  <2> DEFINE R == -2..len - 1
  <2>0. d \in Seq([name : STRING, value : R])  BY <1>1
  <2>1. d \in Seq(Listed(d))
    <3> HIDE DEF R, d
    <3> QED  BY <2>0 DEF Listed
  <2>2. DOMAIN b = DOMAIN d /\ b = [k \in DOMAIN d |-> b[k]]  OBVIOUS
  <2> HIDE DEF b, d
  <2>3. \A k \in DOMAIN d : b[k] \in Listed(b)  BY <2>2 DEF Listed
  <2>4. DOMAIN d = 1..Len(d) /\ Len(d) \in Nat  BY <2>1
  <2>5. b \in [1..Len(d) -> Listed(b)]  BY <2>2, <2>3, <2>4
  <2> QED  BY <2>2, <2>4, <2>5
<1> HIDE DEF a, b, c, d
<1>10. /\ c \in Seq(Listed(c)) /\ Len(a) \in Nat /\ Len(b) \in Nat
       /\ DOMAIN a = 1..Len(a) /\ DOMAIN b = 1..Len(b) /\ DOMAIN c = 1..Len(a) + Len(b)
       /\ \A i \in DOMAIN a : c[i] = a[i]
       /\ \A i \in DOMAIN b : i + Len(a) \in DOMAIN c /\ c[i + Len(a)] = b[i]
  <2>1. /\ a \o b \in Seq(Listed(a \o b))
        /\ Len(a \o b) = Len(a) + Len(b) /\ Len(a) \in Nat /\ Len(b) \in Nat
        /\ DOMAIN a = 1..Len(a) /\ DOMAIN b = 1..Len(b) /\ DOMAIN (a \o b) = 1..Len(a) + Len(b)
        /\ \A i \in DOMAIN a : (a \o b)[i] = a[i]
        /\ \A i \in DOMAIN b : i + Len(a) \in DOMAIN (a \o b) /\ (a \o b)[i + Len(a)] = b[i]
    <3>1. a \in Seq(Listed(a)) /\ b \in Seq(Listed(b))  BY <1>2, <1>9
    <3> QED  BY ONLY <3>1, JoinedLists
  <2>2. c = a \o b  BY <1>2
  <2> QED  BY <2>1, <2>2, Zenon
<1>11. ASSUME NEW k \in DOMAIN c
       PROVE  \/ k \in DOMAIN a /\ c[k] = a[k]
              \/ \E i \in DOMAIN b : k = i + Len(a) /\ c[k] = b[i]
  <2> DEFINE n == Len(a)
             l == Len(b)
  <2>0. n \in Nat /\ l \in Nat /\ k \in 1..n + l /\ DOMAIN a = 1..n /\ DOMAIN b = 1..l  BY <1>10
  <2>1. CASE k <= Len(a)
    <3>1. k \in DOMAIN a
      <4> HIDE DEF n, l
      <4> QED  BY <2>0, <2>1 DEF n
    <3> QED  BY <1>10, <3>1
  <2>2. CASE k > Len(a)
    <3>1. k - Len(a) \in DOMAIN b /\ k = (k - Len(a)) + Len(a)
      <4>1. k > n  BY <2>2
      <4> HIDE DEF n, l
      <4>2. k - n \in 1..l /\ k = (k - n) + n  BY <2>0, <4>1
      <4> QED  BY <2>0, <4>2 DEF n
    <3> QED  BY <1>10, <3>1
  <2> QED
    <3> HIDE DEF n, l
    <3>1. k <= n \/ k > n  BY <2>0
    <3> QED  BY <2>1, <2>2, <3>1 DEF n
<1>12. \A k \in DOMAIN c : c[k].value \in -2..new - 1
  <2> TAKE k \in DOMAIN c
  <2>1. CASE k \in DOMAIN a /\ c[k] = a[k]
    <3>1. a[k].value \in -2..old - 1  BY <1>2, <2>1
    <3> QED  BY <1>4, <2>1, <3>1
  <2>2. CASE \E i \in DOMAIN b : k = i + Len(a) /\ c[k] = b[i]  BY <1>8, <1>9, <2>2
  <2> QED  BY <1>11, <2>1, <2>2
<1>13. ListingGlobals(q)  BY <1>10, <1>12 DEF ListingGlobals, c, new
<1>14. ASSUME NEW k \in DOMAIN a PROVE ValueTree(q, a[k]) = ValueTree(p, a[k])
  BY <1>2, <1>6, <1>14 DEF ValueTree
<1>15. ASSUME NEW k \in DOMAIN d PROVE ValueTree(q, b[k]) = ValueTree(own, d[k])
  BY <1>7, <1>8, <1>15 DEF ValueTree
<1>16. ASSUME NEW x PROVE x \in MeanGlobals(q) <=> x \in MeanGlobals(p) \/ x \in OwnGlobals(qname, own)
  <2>1. x \in MeanGlobals(q) <=> \E k \in DOMAIN c : x = <<c[k].name, ValueTree(q, c[k])>>  BY DEF MeanGlobals, c
  <2>2. x \in MeanGlobals(p) <=> \E k \in DOMAIN a : x = <<a[k].name, ValueTree(p, a[k])>>  BY DEF MeanGlobals, a
  <2>3. x \in OwnGlobals(qname, own) <=> \E k \in DOMAIN d : x = <<Named(qname, d[k].name), ValueTree(own, d[k])>>
    BY DEF OwnGlobals, d
  <2>4. \A k \in DOMAIN a : k \in DOMAIN c /\ c[k] = a[k]
    <3> DEFINE n == Len(a)
               l == Len(b)
    <3>1. n \in Nat /\ l \in Nat /\ DOMAIN a = 1..n /\ DOMAIN c = 1..n + l  BY <1>10
    <3> HIDE DEF n, l
    <3>2. \A k \in DOMAIN a : k \in DOMAIN c  BY <3>1
    <3> QED  BY <1>10, <3>2
  <2>5. ASSUME x \in MeanGlobals(q) PROVE x \in MeanGlobals(p) \/ x \in OwnGlobals(qname, own)
    <3>1. PICK k \in DOMAIN c : x = <<c[k].name, ValueTree(q, c[k])>>  BY <2>1, <2>5
    <3>2. CASE k \in DOMAIN a /\ c[k] = a[k]  BY <1>14, <2>2, <3>1, <3>2
    <3>3. CASE \E i \in DOMAIN b : k = i + Len(a) /\ c[k] = b[i]
      <4>1. PICK i \in DOMAIN d : c[k] = b[i]  BY <1>9, <3>3
      <4> QED  BY <1>8, <1>15, <2>3, <3>1, <4>1
    <3> QED  BY <1>11, <3>2, <3>3
  <2>6. ASSUME x \in MeanGlobals(p) PROVE x \in MeanGlobals(q)
    <3>1. PICK k \in DOMAIN a : x = <<a[k].name, ValueTree(p, a[k])>>  BY <2>2, <2>6
    <3> QED  BY <1>14, <2>1, <2>4, <3>1
  <2>7. ASSUME x \in OwnGlobals(qname, own) PROVE x \in MeanGlobals(q)
    <3>1. PICK k \in DOMAIN d : x = <<Named(qname, d[k].name), ValueTree(own, d[k])>>  BY <2>3, <2>7
    <3>2. k + Len(a) \in DOMAIN c /\ c[k + Len(a)] = b[k]  BY <1>9, <1>10
    <3> QED  BY <1>8, <1>15, <2>1, <3>1, <3>2
  <2> QED  BY <2>5, <2>6, <2>7
<1> QED  BY <1>13, <1>16

-----------------------------------------------------------------------------
(* What is merged so far is a program whose indices are in range, and its  *)
(* functions and variables mean what those of the modules before the next  *)
(* mean.                                                                   *)
MeantSoFar ==
    next # 0 =>
        /\ Closed(merged) /\ ListingFunctions(merged) /\ ListingGlobals(merged)
        /\ MeanFunctions(merged) = UNION {OwnFunctions(modules[i].qname, Own(i)) : i \in Before(next)}
        /\ MeanGlobals(merged) = UNION {OwnGlobals(modules[i].qname, Own(i)) : i \in Before(next)}

LEMMA AddedExtends ==
    ASSUME NEW p, NEW qname, NEW own
    PROVE  LET q == Added(p, qname, own)
           IN  /\ Extends(q, p, own)
               /\ FunctionsAdded(q, p, qname, own)
               /\ GlobalsAdded(q, p, qname, own)
BY DEF Added, Extends, FunctionsAdded, GlobalsAdded, FunctionsEntry, GlobalsEntry

(* The empty program.                                                      *)
LEMMA NothingMeant ==
    /\ Closed(NoProgram) /\ ListingFunctions(NoProgram) /\ ListingGlobals(NoProgram)
    /\ MeanFunctions(NoProgram) = {} /\ MeanGlobals(NoProgram) = {}
<1> DEFINE p == NoProgram
<1>1. p.exprs = <<>> /\ p.stmts = <<>> /\ p.functions = <<>> /\ p.globals = <<>>  BY DEF NoProgram
<1> HIDE DEF p
<1>2. \A Z : <<>> \in Seq(Z)  OBVIOUS
<1>3. DOMAIN <<>> = {}  OBVIOUS
<1>4. \A into \in Stores : p[into] = <<>>  BY <1>1 DEF Stores
<1>5. Closed(p)  BY <1>2, <1>3, <1>4 DEF Closed, Sized, Ranges
<1>6. ListingFunctions(p) /\ ListingGlobals(p)  BY <1>1, <1>2, <1>3 DEF ListingFunctions, ListingGlobals
<1>7. MeanFunctions(p) = {} /\ MeanGlobals(p) = {}  BY <1>1, <1>3 DEF MeanFunctions, MeanGlobals
<1> QED  BY <1>5, <1>6, <1>7 DEF p

LEMMA RootMeans == ASSUME LoadInv, MergeStage, MergeRoot PROVE MeantSoFar'
<1>1. modules # <<>> /\ loading = "done" /\ errors = <<>>  BY DEF MergeRoot, MergeStage
<1>2. 1 \in Taken /\ parsed \in Contents /\ modules[1].qname = Root  BY <1>1, RootTaken DEF MergeStage
<1>3. next' = 2 /\ UNCHANGED <<Taken, modules>> /\ \A i : UNCHANGED Own(i)  BY DEF MergeRoot, loaderVars, Taken, Own
<1>4. Before(2)' = {1}
  <2>1. \A i \in Taken : i \in Nat \ {0}  BY DEF Taken, LoadInv, Inv, Typed
  <2> QED  BY <1>2, <1>3, <2>1 DEF Before
<1> DEFINE own == Own(1)
           r == Added(NoProgram, Root, own)
           q == merged'
<1>5. q.exprs = r.exprs /\ q.stmts = r.stmts /\ q.functions = r.functions /\ q.globals = r.globals
  <2>1. q = [r EXCEPT !.externs = own.externs, !.adts = own.adts]  BY DEF MergeRoot
  <2>2. r = [exprs |-> r.exprs, stmts |-> r.stmts, functions |-> r.functions, globals |-> r.globals,
             externs |-> r.externs, adts |-> r.adts]
    BY DEF Added
  <2> HIDE DEF q, r
  <2> QED  BY <2>1, <2>2
<1>6. /\ Extends(q, NoProgram, own)
      /\ FunctionsAdded(q, NoProgram, Root, own)
      /\ GlobalsAdded(q, NoProgram, Root, own)
  <2> DEFINE none == NoProgram
  <2> HIDE DEF q, none, own
  <2>1. /\ Extends(r, none, own)
        /\ FunctionsAdded(r, none, Root, own)
        /\ GlobalsAdded(r, none, Root, own)
    BY AddedExtends DEF none
  <2> HIDE DEF r
  <2> QED  BY <1>5, <2>1 DEF Extends, FunctionsAdded, GlobalsAdded, none
<1>7. Parsed(own)  BY <1>2, TakenParsed
<1> HIDE DEF own, r, q
<1>8. Closed(q)  BY <1>6, <1>7, NothingMeant, Extended
<1>9. ListingFunctions(q) /\ MeanFunctions(q) = OwnFunctions(Root, own)
  BY <1>6, <1>7, NothingMeant, FunctionsJoin
<1>10. ListingGlobals(q) /\ MeanGlobals(q) = OwnGlobals(Root, own)
  BY <1>6, <1>7, NothingMeant, GlobalsJoin
<1> QED  BY <1>2, <1>3, <1>4, <1>8, <1>9, <1>10 DEF MeantSoFar, q, own

LEMMA ModuleMeans == ASSUME JoinInv, MeantSoFar, MergeModule PROVE MeantSoFar'
<1>1. next' # 0 /\ next # 0 /\ next' = next + 1 /\ parsed \in Contents /\ LoadInv
  BY MergedNext DEF JoinInv, MergeStage
<1>2. UNCHANGED <<Taken, modules>> /\ \A i : UNCHANGED Own(i)  BY MergedNext DEF loaderVars
<1> DEFINE Fs(i) == OwnFunctions(modules[i].qname, Own(i))
           Gs(i) == OwnGlobals(modules[i].qname, Own(i))
<1>3. \A i : UNCHANGED <<Fs(i), Gs(i)>>  BY <1>2
<1>4. Before(next)' = Before(next')  BY <1>2 DEF Before
<1>5. CASE ~Own(next).ok
  <2>1. Before(next + 1) = Before(next) /\ merged' = merged  BY <1>5, MergedNext
  <2> QED  BY <1>1, <1>2, <1>4, <2>1 DEF MeantSoFar
<1>6. CASE Own(next).ok
  <2> DEFINE own == Own(next)
             qname == modules[next].qname
             q == merged'
             p == merged
  <2>1. next \in Taken /\ Before(next + 1) = Before(next) \cup {next} /\ q = Added(p, qname, own)
    BY <1>6, MergedNext
  <2>2. Parsed(own)  BY <1>1, <2>1, TakenParsed
  <2>3. /\ Closed(p) /\ ListingFunctions(p) /\ ListingGlobals(p)
        /\ MeanFunctions(p) = UNION {Fs(i) : i \in Before(next)}
        /\ MeanGlobals(p) = UNION {Gs(i) : i \in Before(next)}
    BY <1>1 DEF MeantSoFar
  <2>4. Fs(next) = OwnFunctions(qname, own) /\ Gs(next) = OwnGlobals(qname, own)  OBVIOUS
  <2> HIDE DEF own, qname, q, p, Fs, Gs
  <2>5. /\ Extends(q, p, own)
        /\ FunctionsAdded(q, p, qname, own)
        /\ GlobalsAdded(q, p, qname, own)
    BY <2>1, AddedExtends
  <2>6. Closed(q)  BY <2>2, <2>3, <2>5, Extended
  <2>7. ListingFunctions(q) /\ MeanFunctions(q) = MeanFunctions(p) \cup Fs(next)
    BY <2>2, <2>3, <2>4, <2>5, FunctionsJoin
  <2>8. ListingGlobals(q) /\ MeanGlobals(q) = MeanGlobals(p) \cup Gs(next)
    BY <2>2, <2>3, <2>4, <2>5, GlobalsJoin
  <2>9. Before(next)' = Before(next) \cup {next}  BY <1>1, <1>4, <2>1
  <2>10. /\ MeanFunctions(q) = UNION {Fs(i) : i \in Before(next)'}
         /\ MeanGlobals(q) = UNION {Gs(i) : i \in Before(next)'}
    BY <2>3, <2>7, <2>8, <2>9
  <2>11. /\ MeanFunctions(q) = UNION {Fs(i)' : i \in Before(next)'}
         /\ MeanGlobals(q) = UNION {Gs(i)' : i \in Before(next)'}
    BY <1>3, <2>10
  <2> QED  BY <2>6, <2>7, <2>8, <2>11 DEF MeantSoFar, Fs, Gs, q
<1> QED  BY <1>5, <1>6

(* Functions and variables of the merged program mean what they meant in   *)
(* their files: module_merge_exprs and module_merge_stmts move every index *)
(* that code is made of, in every field of every kind of node, by the      *)
(* offset of the array it is into.                                         *)
THEOREM MergeKeepsMeaning == MergeSpec => []MergedMeansTheSame
<1>1. MergeInit => MergeStage /\ Declared /\ MeantSoFar  BY DEF MergeInit, LoaderInit, MergeStage, Declared, MeantSoFar
<1>2. JoinInv /\ MeantSoFar /\ [MergeNext]_<<loaderVars, mergeVars>> => MeantSoFar'
  <2> SUFFICES ASSUME JoinInv, MeantSoFar, [MergeNext]_<<loaderVars, mergeVars>> PROVE MeantSoFar'  OBVIOUS
  <2>1. CASE LoaderNext /\ UNCHANGED mergeVars
    <3>1. loading # "done"
      BY <2>1 DEF LoaderNext, CannotRead, BuildRoot, Refuse, FindLoaded, Load, EndScan, AtDeclaration
    <3> QED  BY <2>1, <3>1 DEF JoinInv, MergeStage, mergeVars, MeantSoFar
  <2>2. CASE MergeRoot  BY <2>2, RootMeans DEF JoinInv
  <2>3. CASE MergeModule  BY <2>3, ModuleMeans
  <2>4. CASE UNCHANGED <<loaderVars, mergeVars>>
    <3>1. UNCHANGED <<next, merged, Taken, modules>> /\ \A i : UNCHANGED Own(i)
      BY <2>4 DEF loaderVars, mergeVars, Taken, Own
    <3> QED  BY <3>1 DEF MeantSoFar, Before
  <2> QED  BY <2>1, <2>2, <2>3, <2>4 DEF MergeNext
<1>3. JoinInv /\ MeantSoFar => MergedMeansTheSame
  <2> SUFFICES ASSUME JoinInv, MeantSoFar, Merged PROVE MergedMeansTheSame  BY DEF MergedMeansTheSame
  <2>1. modules \in Seq(Module) /\ next # 0 /\ next > Len(modules)
    BY DEF JoinInv, LoadInv, Inv, Typed, Merged, MergeStage
  <2>2. Before(next) = Taken
    <3>1. \A i \in Taken : i \in 1..Len(modules)  BY <2>1 DEF Taken
    <3> QED  BY <2>1, <3>1 DEF Before, JoinInv, MergeStage
  <2>3. /\ MeanFunctions(merged) = UNION {OwnFunctions(modules[i].qname, Own(i)) : i \in Taken}
        /\ MeanGlobals(merged) = UNION {OwnGlobals(modules[i].qname, Own(i)) : i \in Taken}
    BY <2>1, <2>2 DEF MeantSoFar
  <2> QED  BY <2>3 DEF MergedMeansTheSame, MeanFunctions, OwnFunctions, MeanGlobals, OwnGlobals
<1>4. JoinInv /\ [MergeNext]_<<loaderVars, mergeVars>> => (MergeStage /\ Declared)'
  <2> QED  BY JoinKept
<1> QED  BY <1>1, <1>2, <1>3, <1>4, MergeLoads, LoadInvHolds, PTL DEF MergeSpec, JoinInv
=============================================================================
