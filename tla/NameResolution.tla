--------------------------- MODULE NameResolution ---------------------------
(***************************************************************************)
(* A name is resolved three times: by the semantic pass, which decides     *)
(* whether the program is accepted, by type inference, which gives the use *)
(* its type, and by the code generator, which loads a variable for it.     *)
(* The passes run one after the other over the same statements, and each   *)
(* resolves a use by what it has met before it; so they are modelled side  *)
(* by side, one statement at a time, for the programs the first accepts.   *)
(*                                                                         *)
(* Left out: statements that a return makes unreachable, which are checked *)
(* but not emitted; the order in which the wildcard arm of a match is      *)
(* emitted; the bodies of lambdas; and the table's entries for names that  *)
(* the compiler makes up.                                                  *)
(***************************************************************************)
EXTENDS SemanticScope, VarTable

CONSTANT FunctionList   \* the functions, in the order of the program

ASSUME FunctionAssumption ==
    /\ FunctionList \in Seq(Functions)
    /\ \A f \in Functions : \E i \in DOMAIN FunctionList : FunctionList[i] = f

VARIABLES envs,       \* the environments of the blocks that are open, innermost last
          vars,       \* the table of the code generator
          header,     \* what is left to enter into it before the body
          declared,   \* how many local variables the function has had
          clashing    \* names that meant something already when they were declared

resolutionVars == <<scope, result, entering, pending, envs, vars, header, declared, clashing>>

(* Declarations.                                                           *)
Function(x) == <<"function", x>>
Global(x) == <<"global", x>>
Param(x) == <<"param", x>>
Local(n) == <<"local", n>>

Declarations == ({"function", "global", "param"} \X Names) \cup ({"local"} \X Nat)

(* No variable is NULL.                                                    *)
ASSUME NoDeclAssumption == NoDecl \notin Declarations

Tagged(tag, list) == [i \in DOMAIN list |-> <<tag, list[i]>>]

(* hm_check_program and hm_check_function: functions, globals, parameters. *)
Environment(p) ==
    LET decls == Tagged("function", FunctionList) \o Tagged("global", Globals) \o Tagged("param", p)
    IN  [i \in DOMAIN decls |-> Binding(decls[i][2], decls[i])]

(* codegen_program_target: parameters, functions, globals.                 *)
Header(p) == Tagged("param", p) \o Tagged("function", FunctionList) \o Tagged("global", Globals)

Enter(table, decl) ==
    IF decl[1] = "function" THEN vix_set_var_type(table, decl[2], decl)
    ELSE llvm_define_var(table, decl[2], decl)

env == envs[Len(envs)]
Innermost(e) == [envs EXCEPT ![Len(envs)] = e]

-----------------------------------------------------------------------------
ResolutionInit ==
    Init /\ envs = <<>> /\ vars = <<>> /\ header = <<>> /\ declared = 0 /\ clashing = {}

Repeated(s) == {s[i] : i \in {j \in DOMAIN s : \E k \in DOMAIN s : k # j /\ s[j] = s[k]}}

ResolveFunction(p) ==
    /\ EnterFunction(p)
    /\ envs' = <<Environment(p)>> /\ vars' = <<>> /\ header' = Header(p) /\ declared' = 0
    /\ clashing' = Repeated(FunctionList \o Globals \o p)

EmitHeader ==
    /\ header # <<>>
    /\ vars' = Enter(vars, Head(header)) /\ header' = Tail(header)
    /\ UNCHANGED <<scope, result, entering, pending, envs, declared, clashing>>

ResolveParam == DeclareParam /\ UNCHANGED <<envs, vars, header, declared, clashing>>

ResolveBody ==
    /\ EnterBody /\ header = <<>>
    /\ envs' = Append(envs, env)
    /\ UNCHANGED <<vars, header, declared, clashing>>

(* A local variable is declared in the environment e.                      *)
DeclareLocal(e, x) ==
    /\ vars' = llvm_define_var(vars, x, Local(declared + 1))
    /\ declared' = declared + 1
    /\ clashing' = IF type_env_has(e, x) THEN clashing \cup {x} ELSE clashing

ResolveLet(x, mutable, at) ==
    /\ Let(x, mutable, at)
    /\ envs' = Innermost(type_env_extend(env, x, Local(declared + 1)))
    /\ DeclareLocal(env, x)

ResolveForRange(x, at) ==
    /\ ForRange(x, at)
    /\ envs' = Append(envs, type_env_extend(env, x, Local(declared + 1)))
    /\ DeclareLocal(env, x)

ResolveArm(x, at) ==
    /\ MatchArm(x, at)
    /\ envs' = Append(envs, type_env_extend(env, x, Local(declared + 1)))
    /\ DeclareLocal(env, x)

ResolveBlock == OpenBlock /\ envs' = Append(envs, env) /\ UNCHANGED <<vars, declared, clashing>>

ResolveLeave ==
    /\ LeaveScope
    /\ envs' = SubSeq(envs, 1, Len(envs) - 1)
    /\ UNCHANGED <<vars, declared, clashing>>

(* The uses change no table but the first.                                 *)
ResolveUse(x, at) ==
    /\ Ident(x, at) \/ Addr(x, at) \/ Call(x, at) \/ Capture(x, at) \/ Assign(x, at)
    /\ UNCHANGED <<envs, vars, declared, clashing>>

ResolveStatement ==
    /\ \/ ResolveBlock
       \/ ResolveLeave
       \/ \E x \in Names, at \in Positions :
             \/ \E mutable \in BOOLEAN : ResolveLet(x, mutable, at)
             \/ ResolveForRange(x, at)
             \/ ResolveArm(x, at)
             \/ ResolveUse(x, at)
    /\ UNCHANGED <<entering, pending, header>>

(* Code is generated for a program without errors only.                    *)
ResolutionNext ==
    /\ \/ \E p \in Params : ResolveFunction(p)
       \/ EmitHeader
       \/ ResolveParam
       \/ ResolveBody
       \/ ResolveStatement
    /\ result'.error_count = 0

ResolutionSpec == ResolutionInit /\ [][ResolutionNext]_resolutionVars

-----------------------------------------------------------------------------
(* In the body, a use of x is emitted as a load of the variable its type   *)
(* comes from; for a function the table has a type and no value.           *)
LoadsItsType(x) ==
    LET decl == type_env_lookup(env, x)
    IN  /\ vix_get_var_type(vars, x) = decl
        /\ vix_get_var(vars, x) = IF decl[1] = "function" THEN NoDecl ELSE decl

(* Where no declaration repeats a name that means something at that point, *)
(* every use is given the type of the variable that is loaded for it, also *)
(* when sibling blocks use a name over and over, as long as the table has  *)
(* room.                                                                   *)
LoadsWhatWasTyped ==
    Walking /\ Len(vars) < MaxVars =>
        \A x \in Names \ clashing : type_env_has(env, x) => LoadsItsType(x)

(* The semantic pass and type inference agree on which names mean          *)
(* anything: what the first accepts is never unbound in the second.  "_"   *)
(* is not for reading, and the first does not look it up.                  *)
BoundAlike ==
    Walking => \A x \in Names \ {Blank} :
        (contains(scope, x) \/ x \in Functions) <=> type_env_has(env, x)

(* A variable of a nested block may hide one of a block around it, which   *)
(* is back when the block is left.                                         *)
HidingEndsWithTheBlock ==
    Walking => \A x \in Names : type_env_has(env, x) => LoadsItsType(x)
=============================================================================
