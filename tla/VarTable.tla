------------------------------ MODULE VarTable ------------------------------
(***************************************************************************)
(* The two tables of variables that come after the semantic pass, as       *)
(* operators: the environments of type inference (src/infer/env.vix), and  *)
(* the table of the code generator (src/helper.c), a C array that only     *)
(* grows until the next function resets it.                                *)
(*                                                                         *)
(* What a name is bound to is a declaration: in the environment it stands  *)
(* for a type scheme, in the table for an LLVM value and, apart from it,   *)
(* for the text of a type.                                                 *)
(***************************************************************************)
EXTENDS Sequences, FiniteSetsExt

CONSTANTS MaxVars,   \* MAX_VARS: the entries the table takes
          NoDecl     \* NULL, and the type "i32" that is answered for an unknown one

ASSUME TableAssumption == MaxVars \in Nat

(* The entry the search from the end meets first; 0 when there is none.    *)
LastNamed(s, x) == Max({0} \cup {i \in DOMAIN s : s[i].name = x})

-----------------------------------------------------------------------------
Binding(x, decl) == [name |-> x, decl |-> decl]

type_env_extend(env, x, decl) == Append(env, Binding(x, decl))
type_env_has(env, x) == LastNamed(env, x) # 0
type_env_lookup(env, x) == env[LastNamed(env, x)].decl

-----------------------------------------------------------------------------
VarEntry(x, value, type) == [name |-> x, value |-> value, type |-> type]

(* An entry made for its type alone is given its value; otherwise a name   *)
(* that is there already gets another entry, as long as there is room.     *)
vix_set_var(vars, x, decl) ==
    LET typed == {i \in DOMAIN vars : vars[i].name = x /\ vars[i].value = NoDecl}
    IN  IF typed # {} THEN [vars EXCEPT ![Max(typed)].value = decl]
        ELSE IF Len(vars) < MaxVars THEN Append(vars, VarEntry(x, decl, NoDecl))
        ELSE vars

(* The type goes to the entry that is met first from the start.            *)
vix_set_var_typeWrong(vars, x, decl) ==
    LET named == {i \in DOMAIN vars : vars[i].name = x}
    IN  IF named # {} THEN [vars EXCEPT ![Min(named)].type = decl]
        ELSE IF Len(vars) < MaxVars THEN Append(vars, VarEntry(x, NoDecl, decl))
        ELSE vars
vix_set_var_type(vars, x, decl) ==
    IF LastNamed(vars, x) # 0 THEN [vars EXCEPT ![LastNamed(vars, x)].type = decl]
    ELSE IF Len(vars) < MaxVars THEN Append(vars, VarEntry(x, NoDecl, decl))
    ELSE vars

vix_get_var(vars, x) == IF LastNamed(vars, x) = 0 THEN NoDecl ELSE vars[LastNamed(vars, x)].value
vix_get_var_type(vars, x) == IF LastNamed(vars, x) = 0 THEN NoDecl ELSE vars[LastNamed(vars, x)].type

llvm_define_var(vars, x, decl) == vix_set_var_type(vix_set_var(vars, x, decl), x, decl)
=============================================================================
