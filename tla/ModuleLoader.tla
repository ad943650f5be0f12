---------------------------- MODULE ModuleLoader ----------------------------
(***************************************************************************)
(* The tree of modules of a program (src/module.vix): files that declare   *)
(* other files, read depth first from the entry file on.  A recursive call *)
(* of ml_load_module is a scan on top of the scans that wait for it.       *)
(*                                                                         *)
(* A file is its directory and its name without ".vix"; a declaration      *)
(* names a module ("mod m") or a file (mod "d/m.vix").  A file that is     *)
(* empty counts as missing, in the code too.                               *)
(***************************************************************************)
EXTENDS Integers, Sequences, FiniteSets

CONSTANTS Trees,       \* what the file system may hold: functions from files to their declarations
          EntryFile,   \* the file the compiler is called with
          TakenForTwo, \* files whose path begins as ml_locate's "AMBIGUOUS:..." does (with AMB)
          MaxNesting   \* of modules that are being loaded

SourceFile == [dir : Seq(STRING), base : STRING]
Declaration == [is_file : BOOLEAN, steps : Seq(STRING)]

ASSUME TreesAssumption ==
    \A t \in Trees : /\ DOMAIN t \subseteq SourceFile
                     /\ \A f \in DOMAIN t : t[f] \in Seq(Declaration)
                     /\ \A f \in DOMAIN t : \A d \in DOMAIN t[f] : t[f][d].steps # <<>>
ASSUME TakenAssumption == TakenForTwo \subseteq SourceFile
ASSUME NestingAssumption == MaxNesting \in Nat

VARIABLES tree,         \* the file system of this build
          modules,      \* the graph, in the order the modules were met
          errors,       \* what was refused, and why
          visit_stack,  \* qualified names of the modules being loaded, in any order
          scans,        \* the calls of ml_scan_child_mods, innermost last
          loading       \* "start", "scanning" or "done"

loaderVars == <<tree, modules, errors, visit_stack, scans, loading>>

-----------------------------------------------------------------------------
(* A qualified name is the declarations that lead to a module; that of the *)
(* root, "root", is the empty one.                                         *)
Root == <<>>
module_new(qname, file, parent) ==
    [qname |-> qname, source_path |-> file, parent_id |-> parent, child_ids |-> <<>>]

Under(dir, steps) == [dir |-> dir \o SubSeq(steps, 1, Len(steps) - 1), base |-> steps[Len(steps)]]

(* The files a declaration may mean, in the directory of the file it is in. *)
ml_locate(dir, d) ==
    IF d.is_file THEN {Under(dir, d.steps)} ELSE {Under(dir, d.steps), Under(dir \o d.steps, <<"mod">>)}
Located(dir, d) == ml_locate(dir, d) \cap DOMAIN tree

(* What was located is taken for one file.                                 *)
OneFile(located) == Cardinality(located) = 1 /\ located \cap TakenForTwo = {}

\* Mutant of ml_find_by_qname: a module is told by its own name alone.
ml_find_by_qnameWrong(qname) ==
    {i \in DOMAIN modules : modules[i].qname # Root /\ modules[i].qname[Len(modules[i].qname)] = qname[Len(qname)]}
\* Mutant of ml_pop_stack: a module that is loaded stays on the stack.
ml_pop_stackWrong(qname) == visit_stack

ml_on_stack(qname) == qname \in visit_stack
ml_find_by_qname(qname) == {i \in DOMAIN modules : modules[i].qname = qname}
ml_pop_stack(qname) == visit_stack \ {qname}
ml_add_error(what, qname) == errors' = Append(errors, [what |-> what, qname |-> qname])
ml_add_module(m) == modules' = Append(modules, m)

-----------------------------------------------------------------------------
LoaderInit ==
    /\ tree \in Trees
    /\ modules = <<>> /\ errors = <<>> /\ visit_stack = {} /\ scans = <<>> /\ loading = "start"

(* module_graph_build.                                                     *)
CannotRead ==
    /\ loading = "start" /\ EntryFile \notin DOMAIN tree
    /\ ml_add_error("cannot read", Root) /\ loading' = "done"
    /\ UNCHANGED <<tree, modules, visit_stack, scans>>

Scan(i) == [parent |-> i, at |-> 1]
BuildRoot ==
    /\ loading = "start" /\ EntryFile \in DOMAIN tree
    /\ ml_add_module(module_new(Root, EntryFile, 0))
    /\ visit_stack' = {Root} /\ scans' = <<Scan(1)>> /\ loading' = "scanning"
    /\ UNCHANGED <<tree, errors>>

(* ml_scan_child_mods: the innermost scan and the declaration it is at.    *)
Scanned == scans[Len(scans)]
Parent == modules[Scanned.parent]
Declarations == tree[Parent.source_path]
Current == Declarations[Scanned.at]
QName == Append(Parent.qname, Current)
Candidates == Located(Parent.source_path.dir, Current)

AtDeclaration == loading = "scanning" /\ Scanned.at <= Len(Declarations)
Onward == [scans EXCEPT ![Len(scans)].at = @ + 1]
Adopt(child) == [modules EXCEPT ![Scanned.parent].child_ids = Append(@, child)]

(* ml_load_module, by the ways it ends.  A file that was found is not read  *)
(* in vain.                                                                *)
Refusal ==
    IF ml_on_stack(QName) THEN "circular"
    ELSE IF ml_find_by_qname(QName) # {} \/ OneFile(Candidates) THEN "none"
    ELSE IF Candidates = {} THEN "not found" ELSE "ambiguous"

Refuse ==
    /\ AtDeclaration /\ Refusal # "none"
    /\ ml_add_error(Refusal, QName) /\ scans' = Onward
    /\ UNCHANGED <<tree, modules, visit_stack, loading>>

FindLoaded ==
    /\ AtDeclaration /\ Refusal = "none"
    /\ \E i \in ml_find_by_qname(QName) :
          /\ \A j \in ml_find_by_qname(QName) : i <= j
          /\ modules' = Adopt(i)
    /\ scans' = Onward
    /\ UNCHANGED <<tree, errors, visit_stack, loading>>

Load ==
    /\ AtDeclaration /\ Refusal = "none" /\ ml_find_by_qname(QName) = {}
    /\ Len(scans) <= MaxNesting
    /\ \E file \in Candidates :
          modules' = Append(Adopt(Len(modules) + 1), module_new(QName, file, Scanned.parent))
    /\ visit_stack' = visit_stack \cup {QName}
    /\ scans' = Append(Onward, Scan(Len(modules) + 1))
    /\ UNCHANGED <<tree, errors, loading>>

EndScan ==
    /\ loading = "scanning" /\ Scanned.at > Len(Declarations)
    /\ visit_stack' = ml_pop_stack(Parent.qname)
    /\ scans' = SubSeq(scans, 1, Len(scans) - 1)
    /\ loading' = IF Len(scans) = 1 THEN "done" ELSE loading
    /\ UNCHANGED <<tree, modules, errors>>

LoaderNext == CannotRead \/ BuildRoot \/ Refuse \/ FindLoaded \/ Load \/ EndScan
LoaderSpec == LoaderInit /\ [][LoaderNext]_loaderVars

-----------------------------------------------------------------------------
(* The modules a program has: the entry file's, and then whatever a file   *)
(* declares that is taken for one file, as deep as files may nest.         *)
Node(qname, file) == [qname |-> qname, source_path |-> file]
DeclaredBy(m) == {tree[m.source_path][i] : i \in DOMAIN tree[m.source_path]}
MeantBy(m, d) == Located(m.source_path.dir, d)
FileMeant(m, d) == CHOOSE file \in MeantBy(m, d) : TRUE
ChildrenOf(m) ==
    {Node(Append(m.qname, d), FileMeant(m, d)) : d \in {e \in DeclaredBy(m) : OneFile(MeantBy(m, e))}}
Level[n \in 0..MaxNesting] ==
    IF n = 0 THEN {Node(Root, EntryFile)} ELSE UNION {ChildrenOf(m) : m \in Level[n - 1]}
ProgramModules == UNION {Level[n] : n \in 0..MaxNesting}
Refusals ==
    UNION {{[what |-> IF MeantBy(m, d) = {} THEN "not found" ELSE "ambiguous", qname |-> Append(m.qname, d)] :
              d \in {e \in DeclaredBy(m) : ~OneFile(MeantBy(m, e))}} : m \in ProgramModules}

(* A build that can read its entry file ends with every module that is     *)
(* declared, directly or by another, each under its qualified name, and    *)
(* with an error for every declaration that means no file, or two, or one  *)
(* that is taken for two; nothing else is loaded or refused, whatever is   *)
(* declared twice.                                                         *)
LoadsWhatIsDeclared ==
    loading = "done" /\ EntryFile \in DOMAIN tree =>
        /\ {Node(modules[i].qname, modules[i].source_path) : i \in DOMAIN modules} = ProgramModules
        /\ {errors[i] : i \in DOMAIN errors} = Refusals

(* A qualified name is one module's, and parents and children agree on     *)
(* each other: a module is registered after its parent, which lists it;    *)
(* what a module lists was declared by it and is its own child.            *)
OneModuleAName == \A i, j \in DOMAIN modules : modules[i].qname = modules[j].qname => i = j
Lists(i, child) == \E k \in DOMAIN modules[i].child_ids : modules[i].child_ids[k] = child
FamiliesAgree ==
    /\ OneModuleAName
    /\ \A i \in DOMAIN modules \ {1} :
          modules[i].parent_id \in 1..i - 1 /\ Lists(modules[i].parent_id, i)
    /\ \A i \in DOMAIN modules : \A k \in DOMAIN modules[i].child_ids :
          modules[modules[i].child_ids[k]].parent_id = i

(* "circular dependency ... is already being loaded": a file is not loaded *)
(* while it is being loaded.                                               *)
CyclesAreReported ==
    \A i, j \in DOMAIN scans :
        i # j => modules[scans[i].parent].source_path # modules[scans[j].parent].source_path
=============================================================================
