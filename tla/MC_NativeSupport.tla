-------------------------- MODULE MC_NativeSupport --------------------------
(***************************************************************************)
(* The code around the passes of the compiler, on small instances: the     *)
(* array runtime, the bridge to the collector, the tools of a back end,    *)
(* the linker's command line, the search for the runtime object, the       *)
(* tables of signatures, the ends of statements, and the loading and       *)
(* merging of modules.  The parts share no state: a behaviour is one of a  *)
(* single part, and the others rest.                                       *)
(***************************************************************************)
EXTENDS ArrayRuntime, BridgeClient, Toolchain, LinkArgs, CompilerPaths, SigTables, LexerLines, AstMerge, TLC

VARIABLE part

moduleVars == <<loaderVars, mergeVars>>
rest == <<linkVars, pathVars, tableVars, lexerVars, moduleVars>>
allVars == <<part, arrayVars, bridgeVars, vars, rest>>

(* Where a part rests: an initial state, or what its properties take as    *)
(* one.                                                                    *)
ArrayRest == heap = [a \in Addrs |-> Free] /\ arrays = [v \in Vars |-> NULL]
             /\ elem = (CHOOSE e \in ElemSizes : TRUE) /\ bridged = FALSE
LinkRest == call = "none" /\ present = {} /\ todo = <<>> /\ args = <<>> /\ dropped = FALSE /\ argv = <<>>
PathRest == argv0 = "none" /\ path = <<>> /\ bin = "none" /\ readable = {} /\ found = NotYet
TableRest == program = "none" /\ pending = <<"none">> /\ structs = <<>> /\ funcs = <<>>
             /\ bodies = <<>> /\ refused = {}
LexerRest == src = <<"a">> /\ pos = 1 /\ tokens = <<>>
ModuleRest == tree = <<>> /\ modules = <<>> /\ errors = <<>> /\ visit_stack = {} /\ scans = <<>>
              /\ loading = "start" /\ parsed = <<>> /\ merged = NoProgram /\ next = 0

NativeInit ==
    \/ part = "arrays" /\ ArrayInit /\ BridgeInit /\ Init /\ LinkRest /\ PathRest /\ TableRest /\ LexerRest /\ ModuleRest
    \/ part = "bridge" /\ ArrayRest /\ BridgeInit /\ Init /\ LinkRest /\ PathRest /\ TableRest /\ LexerRest /\ ModuleRest
    \/ part = "tools" /\ ArrayRest /\ BridgeInit /\ Init /\ LinkRest /\ PathRest /\ TableRest /\ LexerRest /\ ModuleRest
    \/ part = "link" /\ ArrayRest /\ BridgeInit /\ Init /\ LinkInit /\ PathRest /\ TableRest /\ LexerRest /\ ModuleRest
    \/ part = "paths" /\ ArrayRest /\ BridgeInit /\ Init /\ LinkRest /\ PathInit /\ TableRest /\ LexerRest /\ ModuleRest
    \/ part = "tables" /\ ArrayRest /\ BridgeInit /\ Init /\ LinkRest /\ PathRest /\ TableInit /\ LexerRest /\ ModuleRest
    \/ part = "lexer" /\ ArrayRest /\ BridgeInit /\ Init /\ LinkRest /\ PathRest /\ TableRest /\ LexerInit /\ ModuleRest
    \/ part = "modules" /\ ArrayRest /\ BridgeInit /\ Init /\ LinkRest /\ PathRest /\ TableRest /\ LexerRest /\ MergeInit

Arrays == part = "arrays" /\ ArrayNext /\ UNCHANGED <<bridgeVars, vars, rest>>
Bridge == part = "bridge" /\ BridgeNext /\ UNCHANGED <<arrayVars, vars, rest>>
ToolsRun == part = "tools" /\ Next /\ UNCHANGED <<arrayVars, bridgeVars, rest>>
Linking == part = "link" /\ LinkNext /\ UNCHANGED <<arrayVars, bridgeVars, vars, pathVars, tableVars, lexerVars, moduleVars>>
Locating == part = "paths" /\ PathNext /\ UNCHANGED <<arrayVars, bridgeVars, vars, linkVars, tableVars, lexerVars, moduleVars>>
Filling == part = "tables" /\ TableNext /\ UNCHANGED <<arrayVars, bridgeVars, vars, linkVars, pathVars, lexerVars, moduleVars>>
Lexing == part = "lexer" /\ LexerNext /\ UNCHANGED <<arrayVars, bridgeVars, vars, linkVars, pathVars, tableVars, moduleVars>>
Joining == part = "modules" /\ MergeNext /\ UNCHANGED <<arrayVars, bridgeVars, vars, linkVars, pathVars, tableVars, lexerVars>>

NativeNext ==
    /\ UNCHANGED part
    /\ Arrays \/ Bridge \/ ToolsRun \/ Linking \/ Locating \/ Filling \/ Lexing \/ Joining

NativeSpec == NativeInit /\ [][NativeNext]_allVars

-----------------------------------------------------------------------------
(* The constants.                                                          *)
Interchangeable == Permutations(Addrs) \cup Permutations(Values)
MCBounds == {-1, 2, 6}
AJob(emit, backend) == [src |-> "a", emit |-> emit, backend |-> backend]
MCJobs == {AJob("exe", "llvm"), AJob("exe", "self"), AJob("asm", "llvm")}

MCChunks == {"a.o", "rt.o", "a", "usr/", "-lz", "-L", "my", "dir"}
Zlib == [written |-> <<"-lz">>, meant |-> <<"-lz">>]
Quoted == [written |-> <<"-L", "'", "my", " ", "\"", "dir", "'">>, meant |-> <<"-L", "my", " ", "\"", "dir">>]
MCCalls == [object : {<<"a.o">>}, runtime : {<<"rt.o">>, <<>>}, output : {<<"a">>, <<"usr/", "a">>},
            links : {<<>>, <<Zlib>>, <<Zlib, Quoted>>}, no_std : BOOLEAN]
MCInstallations ==
    SUBSET {"Scrt1.o", "crt1.o", "gcc12/crtbeginS.o", "gcc9/crtbeginS.o", "gcc9/crtendS.o", "ld.so"}

MCSearchPaths == {<<>>, <<"bin">>, <<"bin", "opt">>, <<"opt", "bin">>}
MCInstalled == {f \in [Dirs -> Dirs \cup {Nothing}] : \A d \in Dirs : f[d] # Nothing => f[f[d]] = f[d]}
MCLibraries == {s \in SUBSET Object : Cardinality(s) <= 2}

N(h) == [head |-> h, rest |-> ""]
F(n, t) == [name |-> N(n), type |-> N(t)]
St(n, fields, c) == [name |-> n, fields |-> fields, is_c_abi |-> c]
Fn(n, e, ret, ps, v) == [name |-> n, emitted |-> e, ret |-> ret, params |-> ps, is_var_arg |-> v]
MCHeads == {"x", "y", "z", "A", "B", "f", "puts", "m.f", "m_f", "L", "i32", "i64", "[i64*4", "ptr"}
MCScalars == {N("i32"), N("i64")}
MCArrayTypes == {N("[i64*4")}
Long == [head |-> "L", rest |-> "ong"]
FieldSeqs == {<<F("x", "i64")>>, <<F("y", "i32"), F("x", "B")>>, <<F("x", "[i64*4"), F("y", "A"), F("z", "i64")>>}
StructSeqs ==
    {<<St(N("A"), f, c), St(N("B"), g, ~c)>> : f, g \in FieldSeqs, c \in BOOLEAN}
    \cup {<<St(Long, f, c), St(N("A"), g, ~c), St(N("B"), f, ~c)>> : f, g \in FieldSeqs, c \in BOOLEAN}
Puts == Fn(N("puts"), N("puts"), N("i32"), <<N("ptr")>>, TRUE)
ExternSeqs == {<<>>, <<Puts, Puts>>}
FunctionSeqs ==
    {<<Fn(N("m.f"), N("m_f"), N("i64"), <<N("i64")>>, FALSE)>>,
     <<Fn(N("f"), N("f"), N("i64"), <<>>, FALSE)>>,
     <<Fn(N("m.f"), N("m_f"), N("A"), <<N("i64"), N("A"), N("ptr")>>, FALSE),
       Fn(Long, Long, N("i64"), <<>>, FALSE)>>,
     <<Fn(N("m.f"), N("m_f"), N("i64"), <<N("i64")>>, FALSE),
       Fn(N("f"), N("f"), N("B"), <<>>, FALSE)>>}
MCPrograms == [structs : StructSeqs, externs : ExternSeqs, functions : FunctionSeqs]

Pieces == {<<"a">>, <<"k">>, <<"}">>, <<"*">>, <<" ">>, <<"\n">>, <<"\"">>, <<"/", "/">>, <<"/", "*">>, <<"*", "/">>}
Two == {<<>>} \cup {p \o q : p \in Pieces, q \in {<<>>} \cup Pieces}
MCTexts == {<<"a">> \o p \o q : p, q \in Two} \cup {<<"k">> \o p \o q : p \in Two, q \in Pieces}

File(dir, name) == [dir |-> dir, base |-> name]
Mod(name) == [is_file |-> FALSE, steps |-> <<name>>]
ModFile(steps) == [is_file |-> TRUE, steps |-> steps]
MCEntry == File(<<>>, "main")
MCTakenForTwo == {File(<<>>, "AMBER")}
MCFiles == {File(<<>>, "sys"), File(<<"a">>, "mod"), File(<<"a">>, "b"), File(<<>>, "b")} \cup MCTakenForTwo
MainDeclares == {<<>>, <<Mod("a"), Mod("b")>>, <<Mod("b"), Mod("sys"), Mod("b")>>, <<Mod("AMBER"), Mod("a")>>,
                 <<ModFile(<<"b">>), Mod("b"), ModFile(<<"a", "b">>)>>}
Declares(file) ==
    CASE file = MCEntry -> MainDeclares
      [] file = File(<<"a">>, "mod") -> {<<Mod("b")>>, <<ModFile(<<"b">>), Mod("a")>>}
      [] file = File(<<>>, "sys") -> {<<Mod("b")>>}
      [] OTHER -> {<<>>}
TreesOver(fs) == {t \in [fs -> UNION {Declares(file) : file \in fs}] : \A file \in fs : t[file] \in Declares(file)}
MCTrees == UNION {TreesOver(fs \cup entry) : fs \in SUBSET MCFiles, entry \in {{}, {MCEntry}}}
           \cup TreesOver({MCEntry, File(<<>>, "a"), File(<<"a">>, "mod")})

(* One of each expression and statement, and a short program.              *)
Adt(name, line, own) == [name |-> name, line |-> line, payload |-> own]
AllNodes(own, line) ==
    [ok |-> TRUE, externs |-> <<"puts", "exit">>, adts |-> <<Adt("Result", line, own), Adt("Tree", 3, "any")>>,
     exprs |-> <<ast_expr_ident(own), ast_expr_ident("x"), ast_expr_binop(0, 1), ast_expr_call(own, <<2, 0>>),
                 ast_expr_block_value(2, 3), ast_expr_if(2, 3, 4), ast_expr_match(1, <<0, 5, -2, 4>>)>>,
     stmts |-> <<ast_stmt_let("x", 0), ast_stmt_assign("x", 2), ast_stmt_block_indices(<<0, 1>>),
                 ast_stmt_return_expr(3), ast_stmt_while(2, 2), ast_stmt_for_range("i", 0, 2, 4),
                 ast_stmt_if(1, 5, 2), ast_stmt_if(1, 3, -1), ast_stmt_store_deref(1, 2), ast_stmt_field_assign(0, 3),
                 ast_stmt_store_index(1, 0, 2), ast_stmt_print(5), ast_stmt_expr(6),
                 ast_stmt_match(1, <<0, 1>>, <<3, 6>>), ast_stmt_return(1),
                 ast_stmt_block_indices(<<13, 7, 8, 9, 10, 11, 12, 14>>)>>,
     functions |-> <<[name |-> "f", body |-> 15], [name |-> "g", body |-> 6]>>,
     globals |-> <<[name |-> "v", value |-> 2], [name |-> "w", value |-> -1]>>]
OneLine(own) ==
    [ok |-> TRUE, externs |-> <<"puts">>, adts |-> <<Adt("Result", 7, own)>>,
     exprs |-> <<ast_expr_ident(own)>>, stmts |-> <<ast_stmt_return_expr(0)>>,
     functions |-> <<[name |-> "f", body |-> 0]>>, globals |-> <<>>]
MCContents ==
    {[file \in MCFiles \cup {MCEntry, File(<<>>, "a")} |->
        IF file.base = unread THEN [AllNodes("q", 0) EXCEPT !.ok = FALSE]
        ELSE IF file.base = short THEN OneLine(file.base)
        ELSE AllNodes(file.base, IF file = MCEntry THEN 0 ELSE line)] :
            unread \in {"none", "b"}, short \in {"none", "mod", "main"}, line \in {0, 5}}
=============================================================================
