------------------------------ MODULE AstMerge ------------------------------
(***************************************************************************)
(* The trees of the modules of a program become one (module_graph_load_all,*)
(* src/module.vix:626): expressions and statements are in two arrays and   *)
(* name each other by index, and the arrays of a module are appended with  *)
(* its indices moved.  Which array an index is into, the code tells by the *)
(* tag of the node and the field.                                          *)
(*                                                                         *)
(* A node holds sequences of indices, from 0, by field; a negative one is  *)
(* none.  What the constructors of src/ast.vix mean an index to be into is *)
(* noted with it, for the properties only.                                 *)
(***************************************************************************)
EXTENDS ModuleLoader

CONSTANT Contents   \* what the files may hold: functions from files to parsed programs

VARIABLES parsed,   \* what the files of this build hold
          merged,   \* the program so far
          next      \* the module to merge; 0 before the first

mergeVars == <<parsed, merged, next>>

(* Constructors of nodes.                                                  *)
InExprs(is) == [into |-> "exprs", at |-> is]
InStmts(is) == [into |-> "stmts", at |-> is]
Ast(tag, text, refs) == [tag |-> tag, text |-> text, refs |-> refs]

ast_expr_ident(x) == Ast("ident", x, [left |-> InExprs(<<-1>>)])
ast_expr_binop(left, right) == Ast("binop", "", [left |-> InExprs(<<left>>), right |-> InExprs(<<right>>)])
ast_expr_call(f, args) == Ast("call", f, [left |-> InExprs(<<-1>>), args |-> InExprs(args)])
ast_expr_if(cond, then, else) == Ast("if_expr", "", [left |-> InExprs(<<cond>>), right |-> InExprs(<<then>>), args |-> InExprs(<<else>>)])
ast_expr_match(subject, arms) == Ast("match_expr", "", [left |-> InExprs(<<subject>>), args |-> InExprs(arms)])
ast_expr_block_value(stmt, value) == Ast("block_expr", "", [left |-> InStmts(<<stmt>>), right |-> InExprs(<<value>>)])

(* A `return' without a value names a zero that no code is made of.        *)
ast_stmt_return(zero) == Ast("return", "", [value |-> InExprs(<<zero>>)])
ast_stmt_return_expr(e) == Ast("return_expr", "", [value |-> InExprs(<<e>>)])
ast_stmt_let(x, e) == Ast("let", x, [assign |-> InExprs(<<e>>)])
ast_stmt_assign(x, e) == Ast("assign", x, [assign |-> InExprs(<<e>>)])
ast_stmt_store_deref(pointer, e) == Ast("store_deref", "", [value |-> InExprs(<<pointer>>), assign |-> InExprs(<<e>>)])
ast_stmt_field_assign(base, e) == Ast("field_assign", "", [value |-> InExprs(<<base>>), assign |-> InExprs(<<e>>)])
ast_stmt_store_index(base, i, e) ==
    Ast("store_index", "", [value |-> InExprs(<<base>>), direct_ret |-> InExprs(<<i>>), assign |-> InExprs(<<e>>)])
ast_stmt_print(e) == Ast("print", "", [print |-> InExprs(<<e>>)])
ast_stmt_expr(e) == Ast("expr", "", [value |-> InExprs(<<e>>)])
ast_stmt_match(subject, patterns, bodies) ==
    Ast("match", "", [value |-> InExprs(<<subject>>), patterns |-> InExprs(patterns), bodies |-> InStmts(bodies)])
ast_stmt_block_indices(is) == Ast("block", "", [stmt_indices |-> InStmts(is)])
ast_stmt_while(cond, body) == Ast("while", "", [value |-> InExprs(<<cond>>), body |-> InStmts(<<body>>)])
ast_stmt_for_range(x, start, end, body) ==
    Ast("for_range", x, [value |-> InExprs(<<start>>), assign |-> InExprs(<<end>>), body |-> InStmts(<<body>>)])
ast_stmt_if(cond, then, else) == Ast("if", "", [value |-> InExprs(<<cond>>), body |-> InStmts(<<then>>), assign |-> InStmts(<<else>>)])

-----------------------------------------------------------------------------
(* What the parser returns.  A node has the fields of one of the           *)
(* constructors, and the indices that code is made of are in range: the    *)
(* parser has made what they name.  A line of 0 is that of a declaration   *)
(* it has made up.                                                         *)
ExprsMade ==
    {ast_expr_ident("x"), ast_expr_binop(0, 0), ast_expr_call("f", <<>>), ast_expr_if(0, 0, 0), ast_expr_match(0, <<>>),
     ast_expr_block_value(0, 0)}
StmtsMade ==
    {ast_stmt_return(0), ast_stmt_return_expr(0), ast_stmt_let("x", 0), ast_stmt_assign("x", 0), ast_stmt_store_deref(0, 0),
     ast_stmt_field_assign(0, 0), ast_stmt_store_index(0, 0, 0), ast_stmt_print(0), ast_stmt_expr(0),
     ast_stmt_match(0, <<>>, <<>>), ast_stmt_block_indices(<<>>), ast_stmt_while(0, 0), ast_stmt_for_range("i", 0, 0, 0),
     ast_stmt_if(0, 0, 0)}

Followed(node) == IF node.tag = "return" THEN {} ELSE DOMAIN node.refs
OfKind(node, kind) ==
    /\ node = Ast(node.tag, node.text, node.refs) /\ node.tag = kind.tag
    /\ node.refs \in [DOMAIN kind.refs -> [into : {"exprs", "stmts"}, at : Seq(Int)]]
    /\ \A field \in DOMAIN kind.refs : node.refs[field].into = kind.refs[field].into
InRange(p, node) ==
    \A field \in Followed(node) : \A k \in DOMAIN node.refs[field].at :
        node.refs[field].at[k] \in -2..Len(p[node.refs[field].into]) - 1
Listed(s) == {s[i] : i \in DOMAIN s}
Parsed(p) ==
    /\ p.exprs \in Seq(Listed(p.exprs)) /\ p.stmts \in Seq(Listed(p.stmts))
    /\ \A i \in DOMAIN p.exprs : InRange(p, p.exprs[i]) /\ \E kind \in ExprsMade : OfKind(p.exprs[i], kind)
    /\ \A i \in DOMAIN p.stmts : InRange(p, p.stmts[i]) /\ \E kind \in StmtsMade : OfKind(p.stmts[i], kind)
    /\ p.functions \in Seq([name : STRING, body : -2..Len(p.stmts) - 1])
    /\ p.globals \in Seq([name : STRING, value : -2..Len(p.exprs) - 1])
    /\ p.externs \in Seq(STRING)
    /\ p.adts \in Seq([name : STRING, line : Nat, payload : STRING])

ASSUME ContentsAssumption ==
    \A c \in Contents :
        /\ EntryFile \in DOMAIN c /\ c[EntryFile].ok
        /\ \A t \in Trees : DOMAIN t \subseteq DOMAIN c
        /\ \A file \in DOMAIN c : c[file].ok => Parsed(c[file])

-----------------------------------------------------------------------------
(* The fields that are moved, by the tags of the nodes.                    *)
Moved(node, field, off) ==
    [node.refs[field] EXCEPT !.at = [i \in DOMAIN @ |-> IF @[i] >= 0 THEN @[i] + off ELSE @[i]]]
Remapped(node, toExpr, toStmt, expr_off, stmt_off) ==
    [node EXCEPT !.refs = [field \in DOMAIN @ |->
        IF field \in toExpr THEN Moved(node, field, expr_off)
        ELSE IF field \in toStmt THEN Moved(node, field, stmt_off)
        ELSE @[field]]]

(* The arguments of a match are patterns and bodies by turns.              *)
module_merge_expr(e, expr_off, stmt_off) ==
    IF e.tag = "block_expr" THEN Remapped(e, {"right"}, {"left"}, expr_off, stmt_off)
    ELSE Remapped(e, {"left", "right", "args"}, {}, expr_off, stmt_off)

ToExprs(tag) ==
    {field \in {"value", "assign", "print", "direct_ret", "patterns"} :
        tag \in CASE field = "value" -> {"return_expr", "expr", "print", "match_option_string", "while",
                                         "for_range", "if", "match", "field_assign", "store_deref", "store_index"}
                  [] field = "assign" -> {"let", "assign", "field_assign", "store_deref", "store_index", "for_range"}
                  [] field = "print" -> {"print"}
                  [] field = "direct_ret" -> {"store_index"}
                  [] field = "patterns" -> {"match"}}
\* Mutant of ToStmts: the `else' of an `if' is not moved.
ToStmtsWrong(tag) ==
    CASE tag \in {"while", "for_range", "if"} -> {"body"}
      [] tag = "block" -> {"stmt_indices"}
      [] tag = "match" -> {"bodies"}
      [] OTHER -> {}
ToStmts(tag) ==
    {field \in {"assign", "body", "stmt_indices", "bodies"} :
        tag \in CASE field = "assign" -> {"if"}
                  [] field = "body" -> {"while", "for_range", "if"}
                  [] field = "stmt_indices" -> {"block"}
                  [] field = "bodies" -> {"match"}}
module_merge_stmt(s, expr_off, stmt_off) == Remapped(s, ToExprs(s.tag), ToStmts(s.tag), expr_off, stmt_off)

module_merge_exprs(es, expr_off, stmt_off) == [i \in DOMAIN es |-> module_merge_expr(es[i], expr_off, stmt_off)]
module_merge_stmts(ss, expr_off, stmt_off) == [i \in DOMAIN ss |-> module_merge_stmt(ss[i], expr_off, stmt_off)]

(* The name of a module's function or variable in the whole program; those *)
(* of the root and of what is declared by "sys" keep theirs.               *)
module_is_sys_member(qname) == Len(qname) > 1 /\ qname[1].steps = <<"sys">> /\ ~qname[1].is_file
Named(qname, name) == <<IF module_is_sys_member(qname) THEN Root ELSE qname, name>>

-----------------------------------------------------------------------------
AddExtern(externs, f) == IF f \in {externs[i] : i \in DOMAIN externs} THEN externs ELSE Append(externs, f)

\* Mutant of AddAdt: the first declaration stays.
AddAdtWrong(adts, adt) == IF \E i \in DOMAIN adts : adts[i].name = adt.name THEN adts ELSE Append(adts, adt)

(* The parser puts a declaration of a result type of its own, with no      *)
(* line, into a program that uses one.                                     *)
AddAdt(adts, adt) ==
    LET same == {i \in DOMAIN adts : adts[i].name = adt.name}
    IN  IF same = {} THEN Append(adts, adt)
        ELSE LET last == CHOOSE i \in same : \A j \in same : j <= i
             IN  IF adts[last].line = 0 /\ adt.line > 0 THEN [adts EXCEPT ![last] = adt] ELSE adts

AddExterns(externs, own) ==
    LET after[n \in 0..Len(own)] == IF n = 0 THEN externs ELSE AddExtern(after[n - 1], own[n])
    IN  after[Len(own)]
AddAdts(adts, own) ==
    LET after[n \in 0..Len(own)] == IF n = 0 THEN adts ELSE AddAdt(after[n - 1], own[n])
    IN  after[Len(own)]

Added(p, qname, own) ==
    LET expr_off == Len(p.exprs)
        stmt_off == Len(p.stmts)
        Function(f) == [name |-> Named(qname, f.name),
                        body |-> IF f.body >= 0 THEN f.body + stmt_off ELSE f.body]
        Global(g) == [name |-> Named(qname, g.name),
                      value |-> IF g.value >= 0 THEN g.value + expr_off ELSE g.value]
    IN  [exprs |-> p.exprs \o module_merge_exprs(own.exprs, expr_off, stmt_off),
         stmts |-> p.stmts \o module_merge_stmts(own.stmts, expr_off, stmt_off),
         functions |-> p.functions \o [i \in DOMAIN own.functions |-> Function(own.functions[i])],
         globals |-> p.globals \o [i \in DOMAIN own.globals |-> Global(own.globals[i])],
         externs |-> AddExterns(p.externs, own.externs),
         adts |-> AddAdts(p.adts, own.adts)]

NoProgram == [exprs |-> <<>>, stmts |-> <<>>, functions |-> <<>>, globals |-> <<>>, externs |-> <<>>, adts |-> <<>>]
Own(i) == parsed[modules[i].source_path]

MergeInit == LoaderInit /\ parsed \in Contents /\ merged = NoProgram /\ next = 0

(* A program is merged if it was loaded without errors; the root's program *)
(* has parsed.                                                             *)
MergeRoot ==
    /\ loading = "done" /\ errors = <<>> /\ next = 0
    /\ merged' = [Added(NoProgram, Root, Own(1)) EXCEPT !.externs = Own(1).externs, !.adts = Own(1).adts]
    /\ next' = 2
    /\ UNCHANGED <<loaderVars, parsed>>

(* A module that does not parse is left out without a word.                *)
MergeModule ==
    /\ next \in DOMAIN modules
    /\ merged' = IF Own(next).ok THEN Added(merged, modules[next].qname, Own(next)) ELSE merged
    /\ next' = next + 1
    /\ UNCHANGED <<loaderVars, parsed>>

MergeNext == (LoaderNext /\ UNCHANGED mergeVars) \/ MergeRoot \/ MergeModule
MergeSpec == MergeInit /\ [][MergeNext]_<<loaderVars, mergeVars>>

-----------------------------------------------------------------------------
(* What an index of a program stands for, down to a depth that the trees   *)
(* do not have: the node, and in each of its fields what the indices there *)
(* stand for.                                                              *)
MaxHeight == 9
Indices(p) == -2..Len(p.exprs) + Len(p.stmts)
Standing(p, below, into, i) ==
    IF i < 0 THEN <<"none", i>>
    ELSE IF i >= Len(p[into]) THEN <<"nothing there">>
    ELSE LET node == p[into][i + 1]
         IN  <<node.tag, node.text, [field \in Followed(node) |-> [k \in DOMAIN node.refs[field].at |->
                                        below[node.refs[field].into][node.refs[field].at[k]]]]>>
Denoted(p) ==
    LET to_height[n \in 0..MaxHeight] ==
            [into \in {"exprs", "stmts"} |-> [i \in Indices(p) |->
                IF n = 0 THEN <<"too high">> ELSE Standing(p, to_height[n - 1], into, i)]]
    IN  to_height[MaxHeight]
BodyTree(p, f) == Denoted(p)["stmts"][f.body]
ValueTree(p, g) == Denoted(p)["exprs"][g.value]

Merged == loading = "done" /\ errors = <<>> /\ next > Len(modules)
Taken == {i \in DOMAIN modules : i = 1 \/ Own(i).ok}

(* The functions and the variables of the merged program are those of its  *)
(* modules, under the names of the modules, and their bodies and values    *)
(* are the trees their files hold, as far as code is made of them.         *)
MergedMeansTheSame ==
    Merged =>
        /\ {<<merged.functions[k].name, BodyTree(merged, merged.functions[k])>> : k \in DOMAIN merged.functions} =
           UNION {{<<Named(modules[i].qname, Own(i).functions[k].name), BodyTree(Own(i), Own(i).functions[k])>> :
                      k \in DOMAIN Own(i).functions} : i \in Taken}
        /\ {<<merged.globals[k].name, ValueTree(merged, merged.globals[k])>> : k \in DOMAIN merged.globals} =
           UNION {{<<Named(modules[i].qname, Own(i).globals[k].name), ValueTree(Own(i), Own(i).globals[k])>> :
                      k \in DOMAIN Own(i).globals} : i \in Taken}

(* An external function and a sum type that modules share are declared     *)
(* once, and the type by one who wrote it if any did, whichever module is  *)
(* merged first.  What the root itself declares twice stays so: its        *)
(* declarations are taken as they are.                                     *)
Every(field) == UNION {Listed(Own(i)[field]) : i \in Taken}
Once(declared) == \A j, k \in DOMAIN declared : declared[j] = declared[k] => j = k
NamedOnce(adts) == \A j, k \in DOMAIN adts : adts[j].name = adts[k].name => j = k
DeclaredOnce ==
    Merged /\ Once(Own(1).externs) /\ NamedOnce(Own(1).adts) =>
        /\ Listed(merged.externs) = Every("externs") /\ Once(merged.externs)
        /\ {a.name : a \in Listed(merged.adts)} = {a.name : a \in Every("adts")} /\ NamedOnce(merged.adts)
        /\ Listed(merged.adts) \subseteq Every("adts")
        /\ \A a \in Listed(merged.adts) : a.line = 0 =>
              \A b \in Every("adts") : b.name = a.name => b.line = 0
=============================================================================
