----------------------------- MODULE SigTables -----------------------------
(***************************************************************************)
(* The tables of structures and functions the LLVM code generator works    *)
(* by (src/src/helper.c), as codegen_program_target fills them.  A table   *)
(* has MaxEntries rows; a row keeps the start of a name that is too long   *)
(* for it, and so many fields or parameters, and no more.                  *)
(*                                                                         *)
(* A name is what fits into a row (head) and what does not (rest), which   *)
(* is "" for most names.  The name of a type is one too.                   *)
(***************************************************************************)
EXTENDS Integers, Sequences, FiniteSets

CONSTANTS Heads, Rests,
          Scalars,     \* names of the scalar types
          ArrayTypes,  \* names of array types of known length
          Programs,
          MaxEntries, MaxFields, MaxParams

NoRest == ""
Name == [head : Heads, rest : Rests \cup {NoRest}]
Struct == [name : Name, fields : Seq([name : Name, type : Name]), is_c_abi : BOOLEAN]
Function == [name : Name, emitted : Name, ret : Name, params : Seq(Name), is_var_arg : BOOLEAN]
Program == [structs : Seq(Struct), externs : Seq(Function), functions : Seq(Function)]
ASSUME ProgramsAssumption == Programs \subseteq Program
ASSUME LimitsAssumption == {MaxEntries, MaxFields, MaxParams} \subseteq Nat \ {0}
ASSUME TypesAssumption == Scalars \cup ArrayTypes \subseteq Name /\ Scalars \cap ArrayTypes = {}

Short(n) == n.rest = NoRest
I32 == [head |-> "i32", rest |-> NoRest]
Unknown == [head |-> "unknown", rest |-> NoRest]

\* strncpy to a row
Cut(n) == [n EXCEPT !.rest = NoRest]
AtMost(n, s) == SubSeq(s, 1, IF Len(s) < n THEN Len(s) ELSE n)
NamesOf(seq) == [i \in DOMAIN seq |-> seq[i].name]
TypesOf(fields) == [i \in DOMAIN fields |-> fields[i].type]
CutAll(names) == [i \in DOMAIN names |-> Cut(names[i])]

(* The types of LLVM.                                                      *)
Scalar(n) == [kind |-> "scalar", of |-> n]
ArrayOf(n) == [kind |-> "array", of |-> n]
Pointer == [kind |-> "pointer", of |-> I32]
StructType(n) == [kind |-> "struct", of |-> n]

VARIABLES program,
          pending,      \* what codegen_program_target has yet to enter
          structs, funcs,
          bodies,    \* LLVM's: the fields of each structure type that has its body
          refused    \* what there was no row for: [kind, name]

tableVars == <<program, pending, structs, funcs, bodies, refused>>

Entries(step, seq) == [i \in DOMAIN seq |-> [step |-> step, entry |-> seq[i]]]
\* Mutant of codegen_program_target: a structure is declared as it is registered.
codegen_program_targetWrong(p) ==
    Entries("struct", p.structs) \o Entries("extern", p.externs) \o Entries("function", p.functions)
codegen_program_target(p) ==
    Entries("declare", p.structs) \o Entries("struct", p.structs)
        \o Entries("extern", p.externs) \o Entries("function", p.functions)

TableInit ==
    /\ program \in Programs
    /\ pending = codegen_program_target(program)
    /\ structs = <<>> /\ funcs = <<>>      \* vix_reset_struct_sigs, vix_reset_function_sigs
    /\ bodies = <<>>
    /\ refused = {}

Entering(step) == pending # <<>> /\ pending[1].step = step /\ pending' = Tail(pending) /\ UNCHANGED program
Entry == pending[1].entry

-----------------------------------------------------------------------------
(* Structures.  Row 0 is none.                                             *)
LastRow(table, n) ==
    LET rows == {i \in DOMAIN table : table[i].name = n}
    IN  IF rows = {} THEN 0 ELSE CHOOSE i \in rows : \A k \in rows : k <= i
vix_find_struct_index(n) == LastRow(structs, n)

Refused(kind, n) == [kind |-> kind, name |-> n]
NewStruct(n) == [name |-> Cut(n), field_names |-> <<>>, field_types |-> <<>>,
                 llvm_type |-> StructType(n), body_set |-> FALSE]
Declared(table, n) ==
    IF LastRow(table, n) # 0 \/ Len(table) >= MaxEntries THEN table ELSE Append(table, NewStruct(n))
Lost(table, n) == IF LastRow(table, n) = 0 /\ Len(table) >= MaxEntries THEN {Refused("struct", n)} ELSE {}

vix_declare_struct_sig ==
    /\ Entering("declare")
    /\ structs' = Declared(structs, Entry.name)
    /\ refused' = refused \cup Lost(structs, Entry.name)
    /\ UNCHANGED <<funcs, bodies>>

(* An array has its elements in place only in a structure laid out as C    *)
(* does.                                                                   *)
vix_llvm_type_for_name(table, type, is_c_abi) ==
    CASE type \in Scalars -> Scalar(type)
      [] type \in ArrayTypes -> IF is_c_abi THEN ArrayOf(type) ELSE Pointer
      [] OTHER -> IF LastRow(table, type) # 0 THEN table[LastRow(table, type)].llvm_type ELSE Scalar(I32)

\* The body of a type is set once.
vix_register_struct_sig_abi ==
    LET s == Entry
        table == Declared(structs, s.name)
        idx == LastRow(table, s.name)
        fields == AtMost(MaxFields, s.fields)
        type == table[idx].llvm_type
    IN  /\ Entering("struct")
        /\ IF idx = 0
           THEN structs' = table /\ UNCHANGED bodies
           ELSE /\ structs' = [table EXCEPT ![idx].field_names = CutAll(NamesOf(fields)),
                                            ![idx].field_types = CutAll(TypesOf(fields)),
                                            ![idx].body_set = TRUE]
                /\ bodies' = IF table[idx].body_set THEN bodies
                             ELSE Append(bodies, [type |-> type, fields |->
                                     [i \in DOMAIN fields |->
                                         vix_llvm_type_for_name(table, fields[i].type, s.is_c_abi)]])
        /\ refused' = refused \cup Lost(structs, s.name)
        /\ UNCHANGED funcs

IndexIn(row, field) ==
    LET at == {i \in DOMAIN structs[row].field_names : structs[row].field_names[i] = field}
    IN  IF at = {} THEN 0 ELSE CHOOSE i \in at : \A k \in at : i <= k
vix_find_field_in_any_struct(field) ==
    LET rows == {s \in DOMAIN structs : IndexIn(s, field) # 0}
    IN  IF rows = {} THEN 0 ELSE CHOOSE s \in rows : \A t \in rows : s <= t

\* The row a field is looked up in: of a pointer to what is not known, any that has it.
RowOf(struct, is_ptr, field) ==
    LET row == vix_find_struct_index(struct)
    IN  IF row = 0 /\ is_ptr THEN vix_find_field_in_any_struct(field) ELSE row
vix_get_struct_field_index(struct, is_ptr, field) ==
    LET row == RowOf(struct, is_ptr, field) IN IF row = 0 THEN 0 ELSE IndexIn(row, field)
vix_get_struct_field_type(struct, is_ptr, field) ==
    LET row == RowOf(struct, is_ptr, field)
        i == vix_get_struct_field_index(struct, is_ptr, field)
    IN  IF i = 0 THEN Unknown ELSE structs[row].field_types[i]

-----------------------------------------------------------------------------
(* Functions.  An entry of the same name is replaced.                      *)
FirstRow(table, n) ==
    LET rows == {i \in DOMAIN table : table[i].name = n}
    IN  IF rows = {} THEN 0 ELSE CHOOSE i \in rows : \A k \in rows : i <= k
FunctionRow(n, f) ==
    [name |-> Cut(n), return_type |-> Cut(f.ret),
     param_types |-> CutAll(AtMost(MaxParams, f.params)), is_var_arg |-> f.is_var_arg]
NoRoom(table, n) == FirstRow(table, n) = 0 /\ Len(table) >= MaxEntries
\* Mutant of WithFunction: a name that is entered again takes another row.
WithFunctionWrong(table, n, f) ==
    IF Len(table) >= MaxEntries THEN table ELSE Append(table, FunctionRow(n, f))
WithFunction(table, n, f) ==
    IF NoRoom(table, n) THEN table
    ELSE IF FirstRow(table, n) = 0 THEN Append(table, FunctionRow(n, f))
    ELSE [table EXCEPT ![FirstRow(table, n)] = FunctionRow(n, f)]

vix_register_function_sig_vararg ==
    /\ Entering("extern")
    /\ funcs' = WithFunction(funcs, Entry.name, Entry)
    /\ refused' = refused \cup (IF NoRoom(funcs, Entry.name) THEN {Refused("function", Entry.name)} ELSE {})
    /\ UNCHANGED <<structs, bodies>>

(* A function is entered by its name and by the one LLVM knows it by.      *)
\* Mutant of register_function_sig: it is entered by its name alone.
register_function_sigWrong ==
    /\ Entering("function")
    /\ funcs' = WithFunction(funcs, Entry.name, Entry)
    /\ refused' = refused \cup (IF NoRoom(funcs, Entry.name) THEN {Refused("function", Entry.name)} ELSE {})
    /\ UNCHANGED <<structs, bodies>>
register_function_sig ==
    LET f == Entry
        first == WithFunction(funcs, f.name, f)
    IN  /\ Entering("function")
        /\ funcs' = IF f.emitted = f.name THEN first ELSE WithFunction(first, f.emitted, f)
        /\ refused' = refused \cup (IF NoRoom(funcs, f.name) THEN {Refused("function", f.name)} ELSE {})
                              \cup (IF f.emitted # f.name /\ NoRoom(first, f.emitted)
                                    THEN {Refused("function", f.emitted)} ELSE {})
        /\ UNCHANGED <<structs, bodies>>

vix_get_function_return_type(n) ==
    IF LastRow(funcs, n) = 0 THEN I32 ELSE funcs[LastRow(funcs, n)].return_type
vix_get_function_param_type(n, i) ==
    IF LastRow(funcs, n) = 0 \/ i \notin DOMAIN funcs[LastRow(funcs, n)].param_types
    THEN I32 ELSE funcs[LastRow(funcs, n)].param_types[i]
vix_get_function_param_count(n) ==
    IF LastRow(funcs, n) = 0 THEN 0 ELSE Len(funcs[LastRow(funcs, n)].param_types)
vix_get_function_is_var_arg(n) ==
    IF LastRow(funcs, n) = 0 THEN FALSE ELSE funcs[LastRow(funcs, n)].is_var_arg

TableNext ==
    \/ vix_declare_struct_sig \/ vix_register_struct_sig_abi
    \/ vix_register_function_sig_vararg \/ register_function_sig

TableSpec == TableInit /\ [][TableNext]_tableVars

-----------------------------------------------------------------------------
(* A name that does not fit is found by no look-up, and may be taken for   *)
(* another; so a property says of which programs it speaks.                *)
Structs == {program.structs[k] : k \in DOMAIN program.structs}
StructNames == {d.name : d \in Structs}
Callees ==
    {<<f.name, f>> : f \in {program.externs[k] : k \in DOMAIN program.externs}}
        \cup UNION {{<<f.name, f>>, <<f.emitted, f>>} : f \in {program.functions[k] : k \in DOMAIN program.functions}}
FunctionNames == {c[1] : c \in Callees}

\* A structure is declared once, and what its fields are called and their types fit.
StructsFit ==
    /\ \A k, m \in DOMAIN program.structs : Cut(program.structs[k].name) = Cut(program.structs[m].name) => k = m
    /\ StructNames \cap (Scalars \cup ArrayTypes) = {}
    /\ \A d \in Structs : \A i \in DOMAIN d.fields :
          /\ Short(d.fields[i].name) /\ Short(d.fields[i].type)
          /\ d.fields[i].type \in Scalars \cup ArrayTypes \cup StructNames
          /\ \A j \in DOMAIN d.fields : d.fields[j].name = d.fields[i].name => j = i

\* One name is of one signature, no name the start of another, and the types fit.
SameSignature(f, g) == f.ret = g.ret /\ f.params = g.params /\ f.is_var_arg = g.is_var_arg
FunctionsFit ==
    \A c, d \in Callees :
        /\ Cut(c[1]) = Cut(d[1]) => c[1] = d[1] /\ SameSignature(c[2], d[2])
        /\ Short(c[2].ret) /\ \A i \in DOMAIN c[2].params : Short(c[2].params[i])

\* A name that does not fit is entered once.
EnteredBy(e) ==
    CASE e.step = "extern" -> {e.entry.name}
      [] e.step = "function" -> {e.entry.name, e.entry.emitted}
      [] OTHER -> {}
Plan == codegen_program_target(program)
LongOnce ==
    \A i, j \in DOMAIN Plan : \A n \in EnteredBy(Plan[i]) \cap EnteredBy(Plan[j]) : Short(n) \/ i = j

Filled == pending = <<>>
InTable(kind, n) == Short(n) /\ Refused(kind, n) \notin refused

(* What a type's name means in the program.                                *)
Denotes(type, is_c_abi) ==
    CASE type \in Scalars -> Scalar(type)
      [] type \in ArrayTypes -> IF is_c_abi THEN ArrayOf(type) ELSE Pointer
      [] OTHER -> StructType(type)
BodyOf(n) == CHOOSE b \in {bodies[k] : k \in DOMAIN bodies} : b.type = StructType(n)

(* The index and the type the code generator finds for a field are those   *)
(* of LLVM's structure, whichever order the structures are declared in;    *)
(* a field past the last a row holds is not found, and never another.      *)
FieldsAgree ==
    Filled /\ StructsFit => \A d \in Structs :
        InTable("struct", d.name) =>
            \A i \in DOMAIN d.fields : \A is_ptr \in BOOLEAN :
                LET index == vix_get_struct_field_index(d.name, is_ptr, d.fields[i].name) IN
                IF i > MaxFields THEN index = 0
                ELSE /\ index = i
                     /\ vix_get_struct_field_type(d.name, is_ptr, d.fields[i].name) = d.fields[i].type
                     /\ InTable("struct", d.fields[i].type) =>
                            BodyOf(d.name).fields[i] = Denotes(d.fields[i].type, d.is_c_abi)

(* A call is typed by the function it calls, by either of its names; by    *)
(* none, if the table had no row left: never by another.                   *)
TypedAs(n, f) ==
    IF ~InTable("function", n) THEN vix_get_function_return_type(n) = I32 /\ vix_get_function_param_count(n) = 0
    ELSE /\ vix_get_function_return_type(n) = f.ret
         /\ vix_get_function_param_count(n) = Len(AtMost(MaxParams, f.params))
         /\ vix_get_function_is_var_arg(n) = f.is_var_arg
         /\ \A i \in DOMAIN f.params :
                vix_get_function_param_type(n, i) = IF i <= MaxParams THEN f.params[i] ELSE I32
CallsTyped == Filled /\ FunctionsFit => \A c \in Callees : TypedAs(c[1], c[2])

(* No function goes without a row while there are rows for every name.     *)
RoomForEveryName ==
    (\E r \in refused : r.kind = "function") /\ LongOnce => Cardinality(FunctionNames) > MaxEntries
=============================================================================
