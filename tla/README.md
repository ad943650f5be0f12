# A verification project for the Vix compiler

Vix (`src/src`, about 26 600 lines of Vix and C) is a self-hosted compiler: it
reads a program, expands its macros, parses it, loads the modules it imports,
checks names, types and ownership, and generates LLVM IR or x86-64 code. It is a
sequential program. What is hard about it is not concurrency but state that
several recursive walks share and copy: scopes, clones of a checker's state that
are merged back, work lists, and graphs that one pass builds and the next trusts.

Paths below are relative to the root of the repository.

## The system

| component | source | state | operations |
|---|---|---|---|
| driver | `src/main.vix`, `snake.vix`, `json_ast.vix` | mode, temporary files | runs the passes in order, stops at the first that fails |
| macro preprocessor | `src/preprocess.vix` | macro table, output, first error | collect, expand, import |
| lexer, parser | `src/lexer.vix`, `parser.vix`, `ast.vix` | token position, expression and statement stores | recursive descent |
| module loader | `src/module.vix` | loaded modules, their children, a stack of names | locate, load depth first, merge the trees with renumbered indices |
| semantic pass | `src/semantic.vix` (`symtable.vix` is imported by nothing) | a stack of scopes, errors | declare, look up, enter, leave, exhaustiveness |
| type inference | `src/infer/*.vix`, `src/type/*.vix` | substitution, environment, constraints | unify, generalise, instantiate |
| typed analysis IR | `src/analysis/typed_analysis.vix:918-2265`, `spec.tyir` | blocks, edges, places, scopes, drop events | build the graph, plan drops, validate |
| ownership checker | `src/analysis/typed_analysis.vix:150-916` | one entry per variable, borrow counters, diagnostics | walk a body with clones for branches, merge them |
| desugaring | `src/desugar.vix` | none | tree rewriting |
| LLVM generator | `src/codegen.vix`, `builder.vix`, `helper.c` | a flat variable table, the current block | one case per statement |
| MIR, passes | `src/mir/mir.vix`, `mir/opt.vix` | text of functions and blocks | promote slots, delete unused code, simplify branches |
| LIR | `src/mir/lir/mod.vix`, `mir/lir2asm` | live intervals, free registers | linear scan |
| x86-64 generator | `src/mir/mir2asm/**` | stack slots, register arguments | select instructions |
| diagnostics | `src/diag.vix`, `error.vix` | a bag of diagnostics with a limit, counters | report, print |
| runtime | `src/runtime.c`, `compiler_gc.c` | array headers | grow, append, slice; allocate, resize, free |
| backend drivers | `src/backend/*.vix`, `lib/api.c`, `lib/llvm/*.cpp` | the text of the linker's arguments, `LastError` of each tool | optimise, compile, link |

The components call one another in the order of the table. What they share is
the tree: `AstProgram` holds two stores, of expressions and of statements, and
the passes refer to nodes by index. The ownership checker also takes the facts
the typed analysis recorded per expression (`OwnershipFacts`); its verdict
decides `--ownership-check` (`src/main.vix:470-482`).

### What makes each of them correct

* *Ownership checker*: an accepted program never uses a moved value, never uses
  a reference whose owner was moved, overwritten, dropped or borrowed again in
  conflict, never returns a reference to a local; no diagnostic is lost when
  clones are merged; the passes over loops end with a state that covers them.
* *Semantic pass*: a name resolves to its innermost declaration; leaving a scope
  forgets exactly its names.
* *Module loader*: what is declared is loaded, once under each name, and has the
  parent its name says; a cycle is reported; after the merge an index means the tree
  it meant in its file; what files share is declared once.
* *Type inference*: the substitution stays acyclic; a solved constraint holds
  under it; failure leaves a consistent state.
* *Typed analysis IR*: every path leaves a scope through its drops; nothing moved
  is dropped.
* *LIR*: two intervals that overlap never share a register.
* *MIR, MIR passes, LLVM generator*: the code does what the source does, in its
  order; its blocks are well formed; it takes no more stack than it has slots.
* *LLVM generator*: a name in scope denotes the variable the checkers meant; its
  tables of structures and functions agree with the types LLVM has.
* *Lexer*: a line ends one statement, wherever blanks and comments stand.
* *Driver, backend drivers*: who reports success has built the whole artifact; no
  temporary file is left; a failure is explained by the tool that failed; the
  linker gets the words that were meant, and the runtime of this compiler.
* *Runtime*: an array stays within its block and is its variable's own; a block
  goes back to the allocator it came from.
* *Diagnostics*: a full bag never turns a rejected program into an accepted one.

## The modules

### Ownership checker

| module | what it holds |
|---|---|
| `VixProgram` | the programs: statements, expressions, types, regions; `LastUse` |
| `OwnershipState` | `OwnershipCheckState` and its operations: find, borrow, release, expire, leave scope |
| `OwnershipCheck` | the walk, `ownership_check_function` and all it calls, as a state machine |
| `VixExec` | what an accepted program does when it runs |
| `OwnershipSound` | checker and program composed: check, then run if accepted |
| `OwnershipCheckProofs` | the proofs about `OwnershipCheck` |
| `SoundProofs` | the proofs about `OwnershipSound` |
| `ProgramFamilies` | finite families of well formed programs, for TLC |
| `MC_Ownership*` | instances |

A body is a sequence of statements, one per line, in which `block`, `if`,
`while`, `for` and `match` open a region and `end` closes it. Lines are also the
only positions the checker computes with (a borrow ends at the line of the last
use), so the line number is the program counter `pc`. The recursion of
`ownership_check_stmt` is the stack `frames`: a frame keeps the state that the
caller holds (`base`), the clone that walked the `then` region (`left`), the line
and the number of passes of a loop. `st` is the state of the innermost walk. One
action stands for one entry to, one exit from, or one pass over a region, and
`SimpleStmt` for a whole simple statement, from `ownership_expire_borrows` at its
head to its last assignment. `reported` is a history variable.

The parallel arrays of `OwnershipCheckState` are one sequence of entries.
`ReleaseReferences` and `LeaveScope` do in one definition what the code does in a
loop over the entries; counters stop at zero in both, so the order in which
references of one owner give back their borrow makes no difference.

Abstractions: a type is one of four ("own", "copy", "shr" for `&T`, "mut" for
`&mut T`), as far as `analysis_type_is_copy` separates them. A field, an element
or a dereference counts as its root. A call has two arguments, the fewest between
which borrows can clash. A function that returns a reference does so from its
only reference parameter; what `ownership_function_return_param_index` finds is
thus part of the call. `if` and block expressions are left out, as are lifetime
names. The bounds of a `for` are literals. Bodies of regions are blocks. Two
diagnostics are the same when code, name and line are.

`VixExec` is the meaning against which acceptance is judged. Its control flow is
that of `codegen_stmt_in_loop` (`src/codegen.vix:948-1242`): any side of a branch
may be taken, a loop runs any number of times, `break` leaves the innermost loop,
a match without a default arm falls through. Its ownership rules are those of the
release notes: a moved value is gone until it is assigned; a reference is good
until its owner is moved, overwritten, goes out of scope, or is borrowed again in
conflict. Reading an owner while it is mutably borrowed is allowed, the release
notes do not forbid it. Names are looked up lexically.

### Runs

| run | shows | instance |
|---|---|---|
| `OwnershipMoves` | `NoUseAfterMove`, `NoDiagnosticLost`, `LoopsSettle`, `Terminates` | every program of up to 4 to 6 further lines over moves, copies, assignments, branches, matches, loops, and loops in loops |
| `OwnershipReferences` | `NoStaleReference`, `Exclusive`, `NoEscape`, `TypeOK` | two references and all clashes in straight-line code; one reference through branches, blocks, arms; functions that return a reference from any region, with a global, a reference parameter and a by-value parameter |
| same run | `Accounting`, `AliasXorMutable`, in straight-line code (`StraightLine`) | two owners, two references, calls that lend twice, among these families |
| `GapUseAfterMove` | `NoUseAfterMove` fails | a `for` body is walked once; the state at a `break` is lost; code after a match whose arms all return is not walked; the place of a store is checked before its value |
| `GapNestedScope` | `NoStaleReference` fails | a borrow is given back twice, in a block or after a branch, or before the loop goes back to its last use, or to a variable that hides the owner; the copy of a reference borrows nothing, nor does a reference that is assigned |
| `GapReassignedReturn` | `NoEscape` fails | a reassigned reference is judged by its first owner |

The families of the passing runs are the largest on which the properties hold:
the checker is not sound beyond them, and each way in which it is not is a
program of `MC_OwnershipMoves`. `GapUseAfterMove` has four of them (`MoveInFor`,
`MoveBeforeBreak`, `MatchThatFallsThrough`, `MoveBeforeStore`) and `GapNestedScope`
six (`NestedScope`, `MergedBranches`, `ReferenceInLoop`, `CopiedReference`,
`ReassignedReference`, `ShadowedOwner`); each of them, as the value of `Programs`,
violates the run's property alone. So the `for` and
`break` cases are absent from the families for moves, references in loops and a
second reference in a nested region from those for references, and shadowing from
all of them. Longer programs repeat what these contain: three entries, two levels
of regions and five lines meet every pair of checker operations.

Two properties have a condition on the program and are checked, and proved, of all
programs that meet it. `Exclusive` is about programs in which no reference takes the
name of its owner (`OwnersNotHidden`): after `let x = &mut x` in one branch, the
borrow is given back to the first entry named `x` that is found, which is the
reference itself, and the owner stays borrowed for good. `Accounting` and
`AliasXorMutable` are about straight-line code in which every `let` has a name of its
own (`NamesApart`), for the same reason: when a borrow is given back its source is
looked up by name again.

`MaxPasses` is 8, as in the code. `LoopsSettle` shows that no loop of the family
needs more than the passes it gets; a status only goes from available to moved
and counters settle, so a second pass that changes something is rare and a third one
rarer (see `PassesSuffice` below).

Deadlock is not checked: a checked function, a halted program and a program with
a fault have no further step.

Fairness: `WF(CheckPhase)` only. The compiler is one sequential program, nothing
but its own steps drives it, and it takes a step whenever it has one. Nothing is
assumed of the program that was checked; it may loop for ever.

### What is proved

In `OwnershipCheckProofs`, for every set of programs over any names, every list
of parameters, return type and bound on the passes:

* `TypeCorrect`: `Spec => []TypeOK`.
* `DiagnosticsKept`: `Spec => []NoDiagnosticLost`. A function is accepted from the
  diagnostics of its final state; these are all the diagnostics of all clones.
* `NeverBoth`: `Spec => []Exclusive`. The counters of an owner never say that it is
  borrowed both ways, in any control flow.
* `BorrowsAccounted`: `Spec => []Accounting`. In straight-line code the counters of an
  owner are those of the references that are out.
* `OneMutableOrShared`: `Spec => []AliasXorMutable`. In straight-line code an owner
  has one live mutable reference or shared ones.
* `PassesSuffice`: `Spec => [](OwnersNotHidden /\ FewMoved => LoopsSettle)`. The bound
  on the passes over a loop cuts off no loop before or in which fewer variables than
  the bound (8) were moved.

Assumed are the conditions on the constants that TLC evaluates in the runs: a
program is a sequence of statements and a match consists of arms
(`ProgramsAssumption`), parameters are entries as `ownership_state_add` makes them,
available and with counters at zero (`ParamsAssumption`), and the ones on names,
return type and bound.

`NoDiagnosticLost` speaks of the finished check and is not inductive. `Inv` adds
where diagnostics are meanwhile: `Collected`, in the state walked now or in the
`left` clone of an `if` whose `else` is being walked; `Stack`, the states that the
frames hold grow from the outermost frame inwards and into the current state, so
that what is joined at the end of a region is larger than what the caller held;
`Matched`, a match before its first arm has reported nothing yet. Most of the proof
is one lemma per function of the checker saying that it only adds: entries are
appended, diagnostics are added (`Grows`).

`Exclusive` speaks of the state that is walked now, which a join makes of states
that frames have held since their regions began: it takes the larger counter of two
clones, and a shared count of the one with a mutable borrow of the other would be
both. `Claims` says of all these states (`Nest`) that no counter claims both
(`Calm`), and that each claims of an owner no more than a state further out does, and
what references entered since then hold (`Within`). When the scope of a region is
left, its references give back what they hold, so that the arm claims no more than
the state the region began with (`Below`) and the larger counter is that state's.
Where a reference takes its owner's name it gives back to itself, and this fails.

`Accounting` counts, and needs to know where each count belongs. `Accounts` says that
as long as the check goes on the entries are `Balanced`: the counters are those of
the references that are out (`Counts`), a mutable one is out alone (`Single`), and
every reference that is out has a source that was entered before it, so that no
look-up by name finds another (`Lenders`). That a `let` enters a new name follows from
`Known`: the entries are the parameters and the `let`s before this line. After the
check everything was given back (`Settled`). Each operation that takes up or gives
back a borrow has a lemma that says what it does to the set of references that are
out (`Out`), of which the counter is the cardinality.

`LoopsSettle` follows from `Claims` and a count of passes. The joins that end a pass
leave every counter as it was (`Below`), so what a pass changes is that available
entries have become moved (`MergeMoves`), and none becomes available again. A frame
of a loop has thus had no more passes than there are moved entries in its base
(`Passes`). The condition `FewMoved` is what is left of this count at the bound. That
it can be hit at all the runs do not show: no loop of the family changes anything in
a third pass.

In `SoundProofs`, under the same assumptions, of checker and program together:

* `MovesExcluded`: `SoundSpec => [](Plain => NoUseAfterMove)`. An accepted program
  that is straight-line code uses no value that it has moved, whatever its lines are.
* `StaleExcluded`: `SoundSpec => [](Plain /\ Tracked(prog) => NoStaleReference)`. Nor
  does it use a reference whose owner was moved, overwritten or borrowed again in
  conflict, if only the variables that borrowed references hold them.
* `EscapesExcluded`: `SoundSpec => [](Plain /\ Tracked(prog) /\ NoRefRef(prog) =>
  NoEscape)`. Nor does it return a reference to a variable of its own, if it takes no
  reference to a parameter that is a reference itself.

`Plain` adds two conditions to `StraightLine`. A name is used after its declaration
only (`NamesKnown`): the checker passes over names it does not find, and leaves them
to the semantic pass, which rejects them. And the value of a store does not mention
the variable that is stored into (`StoresApart`): `x.f = take(x)` is accepted, since
the place is looked at before the value, and is one of the gaps.

`Tracked` and `NoRefRef` name what the checker does not follow. It knows a reference by
the entry that a `let` of a borrow made. `let q = r` makes an entry without a source and
`r = &y` changes none (`CopiedReference`, `ReassignedReference` are such programs), so
`Tracked` allows neither; and it wants a reference parameter where an argument is `&x`.
To the checker a parameter that is a reference is not a local: what it refers to is the
caller's. The parameter itself dies with the function, yet `return &m` of it is
accepted. So `NoRefRef`. The families of `OwnershipReferences`
have programs that meet all three conditions, with every clash between two references.

What relates the two halves of the specification is `Mirror`: entry and cell of a
variable have the same name and type, and the cell is moved if the entry's status says
so; cells past the entries are the temporaries of a call. Each function of the checker
that is given an expression or a statement has a lemma that says: if nothing was
reported on the way, then the run of the same expression or statement, from any cells
that mirror the entries before it, has no fault of this kind and ends in cells that
mirror the entries after it (`IdentGoes`, `BorrowGoes`, `ArgGoes`, `CallGoes`, `LetGoes`,
`AssignGoes`, `StoreGoes`, ...; together `SimpleGoes`). A check that ends without a
diagnostic reported none on the way, because diagnostics only grow. The check is over
before the run begins, so the invariant `Sound` has to remember it: there is a `Trail`,
the entries at each line, whose members carry a run from line to line (`Carries`), and
it reaches to the end of the body or to the first return (`EndsAt`); a run is at a line
of the trail, with cells that fit the entries there (`Runs`).

For references, what fits is more (`Suits`). The checker ends a borrow after the last
line that names its holder, the run when the owner is moved or borrowed in conflict;
the two need not come together. `Alive` relates them: a reference of the run that
the checker has not given back is good, and the counters of its owner claim it
(`Claimed`), so that the checker refuses whatever would end it; one that was given back
may be stale, but no later line mentions it. `Bound` ties the variable that holds a
reference to its entry: the source, looked up by name, is the cell the reference is to,
the kind of the borrow is its type, and its end is the last line that names it. That
the counters of an owner are those of the references that are out is `Balanced`, the
invariant behind `Accounting`. The temporaries of a call are out until the call is done;
that an argument's borrow outlives the argument is what keeps the second argument from
ending it. Every expression and statement has a lemma that carries this on (`IdentKeeps`,
`BorrowKeeps`, `ArgKeeps`, `CallKeeps`, then `LetTies`, `AssignTies`, `StoreTies`, ...). For
`NoEscape`, `Origins` says that the first entries are the globals and parameters and
the others are locals; a reference that is returned then points where the checker,
which goes by the name of its source, takes it to point (`StaysHome`).

Outside straight-line code the three are model-checked only: there soundness fails, as
the gaps show, and holds on families that no simple condition describes. `Terminates` is a liveness property and out of the prover's reach.

### Name resolution

| module | what it holds |
|---|---|
| `DiagBag` | what the bag of diagnostics takes and refuses, and the counters of `SemanticResult` |
| `SemanticScope` | the semantic pass's arrays of slots and the walk of the functions over them |
| `LexicalScopes` | what is promised: blocks that nest, each with its own variables |
| `SemanticScopeCorrect` | the invariants of the arrays, and the refinement mapping to `LexicalScopes` |
| `VarTable` | the environments of type inference and the code generator's table, as operators |
| `NameResolution` | the three tables side by side |
| `ScopeProofs` | the proofs about `SemanticScope`: types, depths, one slot for each name, and that the arrays implement `LexicalScopes` |
| `ResolutionProofs` | the proofs about `NameResolution` |
| `MC_SemanticScope`, `MC_NameResolution` | instances |

The seven parallel arrays of `SemanticScope` are one sequence, `scope.entries`,
and are never shortened: `semantic_scope_pop` lowers `active_len`, and the next
declaration writes over the slot. The walk over a tree is the order in which it
meets declarations, uses and block ends, one action each; which comes next is up
to the source text, so any may. An initialiser, a condition or an argument comes
before the statement it belongs to. `entering` and `pending` are the loops at the
head of `semantic_check_function_body`.

`NameResolution` adds to each of these actions what it does to the environments
of `infer/solver.vix` (cloned for a block, dropped at its end) and to the table
of `helper.c` (reset for a function, appended to, searched from the end). The
passes run one after the other, but each resolves a use by the declarations it
has met before it, and all meet them in the same order; the model steps them
together, and only for programs the first accepts (`result'.error_count = 0`).
A binding is a declaration: in the environment it stands for the type scheme, in
the table for the value and, apart from it, for the type, so that a lookup that
takes the value of one variable and the type of another is seen. `header` is what
codegen enters before the body, in its order: parameters, functions, globals.

Abstractions: a diagnostic is its kind, name and place, and the bag is a set (the
array refuses what is there already and is sorted before it is shown). Errors
found outside the scope (duplicate functions, signatures, fields, exhaustiveness)
are left out; they enter the counters as these do. The captures of a lambda are
parameters of its function. A pattern that binds two names is an arm and a `Let`.
Left out of `NameResolution`: statements that a `return` makes unreachable, which
are checked but not emitted; the place at which the wildcard arm of a match is
emitted; the table's entries for names that the compiler makes up (`__return`,
the end of a `for`), which no program can write; the widths of the table's fields.

| run | shows | bounds |
|---|---|---|
| `SemanticScope` | `TypeOK`, `DepthsInOrder`, `OneSlotEach`; `ImplementsBlocks`: the arrays implement `LexicalScopes` | two variables, a function, `_`; two nested scopes and the one of the parameters; three slots; a bag of one error, with one error followed past it; one warning |
| `NameResolution` | `LoadsWhatWasTyped`: where no declaration repeats a name that means something, what is loaded for a use is what gave it its type; `BoundAlike`: the semantic pass and type inference bind the same names | the same names, a function, a global and a parameter list that clash; three scopes, two local variables, a table of six entries |
| `GapHiding` | `HidingEndsWithTheBlock` fails | one function, three local variables |

A slot is reused as soon as one block follows another, which takes two slots and
two scopes; a third is there to be in the way. The limit of the bag is 50 in the
code; at one the error that does not fit is the second. The table has 4096
entries in the code, at six the header alone can come close to filling it.
Functions follow one another without end in the model, so deadlock is checked: the
walk can always go on.

`GapHiding` is a fault of the code generator. Its table knows no blocks, so after

    let x = 1
    if (c) { let x = 2 }
    print(x)

the second `x` is what is loaded. The semantic pass accepts this, type inference
gives the last `x` the type of the first, and `docs/RELEASE_v0.2.6.md` promises
it. `LoadsWhatWasTyped` excludes exactly these names (`clashing`) and shows that
the table does well otherwise, also when blocks beside each other use a name
again and again.

No fairness is assumed: there is no liveness here.

#### What is proved

In `ScopeProofs`, for every program, set of names, parameter list, limit and depth:

* `ScopeTypeCorrect`: `Spec => []TypeOK`, and with it that `active_len` never
  passes the end of the arrays, and that only declared variables are reported.
* `ScopeDepthsInOrder`: `Spec => []DepthsInOrder`.
* `ScopeOneSlotEach`: `Spec => []OneSlotEach`.

The assumptions are those on the constants (`NamesAssumption`, `BagAssumption`).
`DepthsInOrder` does not carry itself over `semantic_scope_pop`, which cuts at the
greatest slot of a smaller depth. The inductive invariant `ScopeInv` says instead
(`Split`) that each depth divides the slots in use into those below it and the rest.
The cut is then at the division by the current depth, the divisions by smaller depths
stay, and a declaration moves only the last. `Placed` says which slots may be
reported: `TypeOK` of the diagnostics rests on it.

Also in `ScopeProofs`, under the same assumptions and for programs of any size:

* `ArraysAreBlocks`: `Spec => ImplementsBlocks`, every step of the walk over the
  arrays is a step of `LexicalScopes`, or none.

The mapped variable `Blocks` is built with `Max` and `CHOOSE` over the slots; what it
is was characterised first: `Represents(s, B)` says that every slot in use is a
variable of its block and every variable of a block has a slot. Then there is one
lemma for each operation on the arrays (`PushBlocks`, `PopBlocks`, `PlaceBlocks`,
`MarkBlocks`) saying that its result represents what the operation of `LexicalScopes`
makes of the blocks; `LookupFinds` says that the slot found is the innermost block's,
since depths ascend. The invariant `BlocksInv` adds two facts to `ScopeInv`: a bag that
holds an error has counted one (`Counted`), so that an error the full bag refuses is
never the first, and the program is rejected when it is in `LexicalScopes`; and no
scope is open while parameters are entered.

In `ResolutionProofs`, for any functions, globals, parameters and size of the table
(`FunctionAssumption`: the list has every function; `TableAssumption`: the size is a
number; `NoDeclAssumption`: no declaration is NULL):

* `UsesLoadWhatWasTyped`: `ResolutionSpec => []LoadsWhatWasTyped`;
* `NamesBoundAlike`: `ResolutionSpec => []BoundAlike`.

The invariant `ResolutionInv` has two parts beside `ScopeInv`. `Tables` relates the
environments to the table, for the names that do not clash: a name comes once in the
environments and its entry in the table is the same declaration, and a name bound in
no environment has no entry that could be found. Only names that clash have more than
one entry, which is why the search from the end finds the right one. `BoundIn` relates
each environment to the slots of the semantic pass: a name is bound in the n-th
environment just if it has a slot of a depth below n. `BoundAtEntry` says the same
of the moment at which parameters are entered.

### Back ends

| module | what it holds |
|---|---|
| `SourceRun` | statements and expressions with values; a run of a program on its source, known by its effects |
| `IrCode` | the code of a function, a machine that runs it, and the forms code must have |
| `Lowering` | labels, temporaries and open statements, as both lowerings keep them |
| `MirEmit` | `mir/mir.vix` and `mir_builder.vix`: a body to MIR, one statement at a time |
| `IrBuilder` | the wrappers of LLVM's builder in `helper.c` |
| `LlvmEmit` | `codegen.vix` on these wrappers: a body to LLVM IR, one statement at a time |
| `MirOpt` | `mir/opt.vix`, and the scalar pass in `helper.c` |
| `BackEnds` | a function through one of the back ends, its code run beside the source |
| `MC_BackEnds` | the programs |

`built` is the builder: `MirBuilder` for "self", the LLVM builder with its blocks
and insertion point for "llvm". Code is a sequence of instructions where the
compiler has text; a token of a line is an operand. The recursion over statements
is the stack `frames` in the builder: a frame holds the labels that the recursive
call has in its local variables. An action lowers one line of the program, ends
the function, makes one pass of the optimiser (`Promote`, `Propagate`, `Trim`, in
the order of `mir_opt_program`), or takes a step of the two machines. Definitions
of an expression's code are cut where the code goes on with what it emitted last.

First the source runs: a function outside may answer anything in `Inputs`, and
each answer, each print and the return is an effect in `log`. Then the code runs
and has to repeat the log; it takes the answers from there. A value that was never
assigned is `Undef`, and to branch on it or show it is to stray.

| run | shows | bounds |
|---|---|---|
| `BackEnds` | `SameEffects`, `WellFormed`, `StackBounded`, `CodeFinishes` | programs with every statement, loops in arms of matches in loops left from each depth, comparisons, `and`, `or` and `if` expressions in one another, with bools and with numbers, unreachable statements, closure calls; answers 0, 1, 2; runs of up to five effects; all three back ends |
| `GapMirRules` | `KeepsMirRules` fails, in both its parts | `let x = f()  let y = x  print(f() and y)` under `--backend=self-opt` |

Five effects let a loop be left in its third round, and every number but 0, 1 and
a third one is as good as the third one to the conditions and patterns used. A
program has at most fifteen lines: a region inside a region inside a region is the
deepest at which a label of the wrong frame could be taken for the right one.

Fairness: the specification says that the compiler and then the program it made go
on as long as they can (`CanStep`), which is weak fairness of `Next`. Both are
sequential, and nothing outside has to answer for them to go on but the function
`Read` calls, which always answers. `CodeFinishes` is the property that needs it:
the optimiser removes code, and must not remove a way out.

`GapMirRules` shows two faults of the compiler's own back end in one program. Its
property holds `spec.vic` to its word in the optimised code: a value is assigned
just once, and `br_cond` asks an `i1`.

- A load of a slot that is stored to once is replaced by what was stored, and the
  replacements that were found are applied to the lines that stay, but not to one
  another (`opt.vix:372`). A chain of variables ends in a value that no line assigns.
- The operands of `and` and `or` are lowered as bools, but from a number
  `mir_cast_if_needed` has no instruction to a bool: it relabels the value
  (`mir.vix:284`), and `mir_truthy` has nothing to do. So the branch asks an `i32`,
  and `print(f() and g())` prints what `g` answers where the LLVM back end prints 1.
  Inference accepts the number (`ty.vix:132`).

So chains are absent from `BackEnds`, and of programs with such operands
(`AsksOnlyBools` fails) the two properties about effects are stated for the LLVM
back end only (`Compiles`), as is that branches ask bools; that the code is
otherwise well formed holds of all. An `if` expression with a bool on one side and
a number on the other is excepted in the same way. Absent, too, are
calls of closures whose answer is not used: the optimiser keeps
an unused line if it is a `call`, and takes a `call_indirect` for an ordinary one
(`helper.c:460`), so that `SameEffects` would fail.

Restrictions: programs are `Plain`, which means that a match begins with an arm,
that its default arm is its last, and that no name is declared twice; what names do then
is the subject of `NameResolution`. Variables and the answers of calls are numbers
(`i32`); comparisons, `and`, `or` and the constants `true` and `false` are bools. Left out are other types and casts, arrays,
structures, options, the bindings of patterns, a `break` inside a block expression
(`mir.vix:643`), and lambdas, whose captures are loaded as `i32`
(`codegen.vix:1368`).

Nothing of this is proved: expressions are trees, their lowering is recursive, and
what a recursive operator does for every input is out of the prover's reach.

### Native support

The C and C++ around the compiler, and the loader of its modules. The parts share no
state and are checked by one run, `NativeSupport`, in which each behaviour is one of a
single part (`part`).

| module | what it holds |
|---|---|
| `GcBridge` | `compiler_gc.c`: `malloc`, `realloc` and `free` wrapped around the Boehm collector; the two allocators, as their callers see them (external) |
| `BridgeClient` | the compiler's C code as their client, with collections between its steps |
| `DynArrays` | what the language promises of arrays: sequences, each a variable's own |
| `ArrayRuntime` | `runtime.c`: reserve, push, slice; refines `DynArrays` |
| `RuntimeProofs` | the proofs about `BridgeClient` and `ArrayRuntime` |
| `Toolchain` | the steps of the driver after the front end, over a file system that several compilers share |
| `ToolchainProofs` | the proofs about it |
| `LinkArgs` | the linker's command line: written by `api.c`, split by `Linker.cpp` |
| `CompilerPaths` | how the compiler finds itself and its runtime object |
| `SigTables` | the tables of structures and functions in `helper.c`, beside LLVM's types |
| `LexerLines` | semicolons at the ends of lines: the lexer's own scanner and the one in C |
| `SupportProofs` | the proofs about `LinkArgs`, `CompilerPaths`, `SigTables` and `LexerLines` |
| `ModuleLoader` | `module.vix`: the tree of modules, read depth first from the entry file |
| `AstMerge` | the trees of the modules put into one program, composed with the loader |
| `LoaderProofs` | the proofs about `ModuleLoader` and `AstMerge` |
| `MC_NativeSupport`, `MC_CircularModules` | the instances |

An operation that allocates is a set of outcomes, one of them that there is no
memory. In `ArrayRuntime` a variable holds an address, as generated code does, and
a push returns the address to be stored; a push for which there is no memory
returns NULL and the array is lost, as in the code, which `DynArrays` says too. In
`Toolchain` a step is one call of the driver: it fails before it opened its output,
fails after, ends the process while writing, or succeeds. A file holds whose
program it was made of, what it is and whether it is whole. `write_text_file` looks at
the result of neither `fputs` nor `fclose` (`main.vix:676`), so the raw IR may be
written in part with success, and LLVM may take the part for a module: the history
variable `entire` remembers it, and `SuccessMeansArtifact` says that this is the only
way to a success without the whole program. Two files stay after a failure, since no
step deletes them: assembly that could not be written (`main.vix:561-564`), and what a
`nasm` that failed or was killed left of the object (`main.vix:567-571`). `Kill` is a death at
any other time; what was written stays and the next compiler meets it.

In `ModuleLoader` a recursive call of `ml_load_module` is a scan on top of the stack
`scans`; one action ends a call (refused, found among the loaded, or loaded and
scanned in turn) or a scan. A qualified name is the sequence of the declarations that
lead to a module, and the stack of names in the code, of which only membership is
asked, is a set. The answer of `ml_locate` is a path, or a text that begins
`AMBIGUOUS:`; `ml_load_module` tells the two apart by the first three letters and a
length of 9 (`module.vix:310`), so that `mod AMBER`, whose file is `AMBER.vix`, is
refused as ambiguous. `TakenForTwo` is the set of the files to which this happens, any
set for the proofs; the run has an `AMBER` that may be declared. `AstMerge` keeps of a node its tag and its indices, by field; which
array an index is into is noted by the constructors of `ast.vix` for the properties,
while the merge goes by tag and field as the code does.

| property | shows |
|---|---|
| `LoadsWhatIsDeclared` | the modules loaded are those declared, and the errors those of declarations that mean no file, two, or one taken for two |
| `FamiliesAgree` | a name is one module's; parents and children agree, whatever is declared twice |
| `MergedMeansTheSame` | functions and variables of the merged program have the bodies and values of their files |
| `DeclaredOnce` | an external function or a sum type that files share is there once, and is a written one if any is |
| `InBounds` | length, capacity and block of every array fit together, whatever the widths of `int` and `size_t` |
| `ImplementsArrays` | `ArrayRuntime` implements `DynArrays`: a push appends or empties, a slice is a copy, nothing is shared |
| `RoutedHome` | `free` and `realloc` hand every block to the allocator it came from |
| `TailKept` | a block of the collector has its spare bytes, after `realloc` too |
| `SuccessMeansArtifact` | success is reported only of an artifact of the right source, whole unless its own raw IR was written in part unnoticed |
| `TemporariesRemoved` | who reports has left no temporary file, except assembly that could not be written and the object of a `nasm` that failed |
| `ExplainedByItsTool` | a failed build prints the error of the tool that failed and no other, though `LastError` may hold warnings |
| `TextFits` | the arguments never pass the end of their buffer |
| `WordsAsMeant` | what `Linker.cpp` splits is what `api.c` was given, quotes included; an argument with no room is left out whole |
| `OwnRuntime` | the runtime object is that of the compiler a shell has started, through links and `PATH` |
| `FieldsAgree` | index and type of a field are those of LLVM's structure, in whatever order structures are declared |
| `CallsTyped` | a call is typed by its function under both of its names, or by none, never by another |
| `RoomForEveryName` | no function is refused a row while there is one |
| `OneSemicolonALine` | two statements are parted by exactly one semicolon, and nothing else is |

Bounds: three addresses (an array that moves needs two, a second array the third); the
largest `int` is 5 and the largest `size_t` 13, so that capacity doubles, stops
doubling and overflows, with elements of 2 and 3 units; two compilers, one death, an
executable through either back end and assembly through LLVM, of one source, so that
all jobs share one directory; a buffer of 21 characters, which the longest command
line overflows; three directories; tables of three rows with two fields and two
parameters, each of which some program overflows; texts of up to five pieces; up to
five files in two directories, of which any may be missing, modules in modules in
modules, and one of each expression and statement in a file. Addresses and array
elements are interchangeable (`SYMMETRY`). Deadlock is not checked: a part ends. There
is no liveness here and no fairness.

`GapCircularModules` is a fault of the loader. The comment at `module.vix:282` says
"cycle check", and the message that follows speaks of a circular dependency; but the
stack holds names that begin with the names of all parents. When `a` declares `b` and
`b` declares `a`, the second `a` is `root::a::b::a`, which is not on it, and the loader
reads the two files inside one another until it runs out of stack. `NoCycleSeen`
proves that the message never appears. The files of the passing run have no cycles.

`DeclaredOnce` is about programs whose entry file declares a thing once: its list of
externals and types is taken as it is (`module.vix:653-668`), and only the lists of the
other modules are searched. Trees are compared down to `MaxHeight`, 9 levels, which
those of the run do not have; the proof would serve for any height.

A `return` without a value keeps the index of a zero that no code is made of
(`ast.vix:351`), and the merge does not move it. `MergedMeansTheSame` leaves it out
(`Followed`). The ownership checker follows it (`typed_analysis.vix:303`) into
an expression of another file, and may hold a borrow for longer than it is used.

Restrictions: a file name that has a slash but no ".vix" is left out, and so are
structures, which are appended as variables are, the names of lambdas, the legacy form
of blocks, and the arms of a match, which double its indices. Two compilers at work
never build the same artifact (the code has no lock, and they would spoil each other's
files). Paths have no blanks, which `api.c` does not quote.
`PATH` has no empty element, which `strtok_r` skips and a shell takes for the current
directory. The properties of the tables are about programs in which a thing is
declared once and no name is cut to the beginning of another. Collections in
`BridgeClient` may take a block that is reached from `calloc`'s memory only, which is
not wrapped (`makefile:13`); what `helper.c:490` reads then is not a property here.

#### What is proved

In `ToolchainProofs`, for any number of compilers, sources, jobs and deaths:

* `SuccessIsAnArtifact`: `Spec => []SuccessMeansArtifact`;
* `FailuresAreExplained`: `Spec => []ExplainedByItsTool`.

The invariant of the first is `Inv`: `Typed`; `Apart`, compilers at work have different
artifacts, hence different temporary files; and `OnCourse`, what the files of a
compiler hold at each of its steps: at "optimize" the text it wrote, at "link" an
object of its job, and so on, each whole if `entire` says so. `SuccessMeansArtifact` is the last line of
`OnCourse`. `Apart` is needed because a step of another compiler must leave these
files alone. The second says nothing of files, and its invariant `ExplainInv` does
not either: `Diagnosed` says, at each step, that `LastError` is empty while nothing
has failed before the linker, and afterwards holds the failed tool alone. The steps
up to the linker come in because a warning of an earlier tool would be taken for the
cause of a later failure.

* `NothingIsLeftBehind`: `Spec => []TemporariesRemoved`.

Its invariant is `TidyInv`: `Apart` again, and `Orderly`, which says for each step of a
compiler that the temporary files it has opened are gone, except those this step and
the steps after it will still delete (`StillToDrop`), and that they are its own. So
who reports has nothing left to delete, and has left nothing but what `NeverDeleted`
says of its failure.

In `RuntimeProofs`, for any addresses, variables and requests (`HeapAssumption`,
`TailAssumption`, and `RequestsAssumption`: no request passes the largest size):

* `BlocksRoutedHome`: `BridgeSpec => []RoutedHome`;
* `BlocksKeepTheirTails`: `BridgeSpec => []TailKept`.

The invariant is `BridgeInv`: the types, `RoutedHome`, and `Tailed`, which is
`TailKept` said of any heap and any sizes, so that the heap an operation returns can
be put in before a variable holds it. One lemma per operation of `GcBridge` says what
it leaves of the heap (`MallocProper`, `ReallocProper`, ...), one per step of the
client that it keeps the invariant.

In the same module, for any widths of `int` and `size_t`, sizes of elements, addresses
and variables (`ArrayAssumption`):

* `ArraysStayInBounds`: `ArraySpec => []InBounds`;
* `ArraysAreSequences`: `ArraySpec => ImplementsArrays`.

The invariant is `ArrayInv`: a variable's block is no other variable's (`OwnBlocks`) and
has room for the capacity its header states, which is at least its length
(`SoundArrays`). One lemma says of each of `reserve_for_push`, `push_raw` and
`slice_bytes` which array it returns and that it touches no other block (`Local`). What
the lemmas rest on is arithmetic: a size that passes the test before `realloc` has not
wrapped, and the loop that doubles the capacity ends at one that is large enough or
at the largest.

In `LoaderProofs`, for any file systems, entry file and depth (`TreesAssumption`: a
declaration has a name):

* `Families`: `LoaderSpec => []FamiliesAgree`;
* `NoCycleSeen`: `LoaderSpec => []NoneCircular`, no error is "circular".

`FamiliesAgree` does not carry itself: that the module found under a name is a child
of the module that declares it follows from `NamesExtend` (a module's name is its
parent's and a declaration) and `OneModuleAName`. `ScansNest` says that the name of the
n-th scan has n - 1 parts and that the stack holds names of scans only; the name
asked for is longer than all of these, so it is not on the stack.

* `DeclaredIsLoaded`: `LoaderSpec => []LoadsWhatIsDeclared`.

`LoadsWhatIsDeclared` compares the loader that is done with the modules that are
declared, level by level. Its invariant `LoadInv` says of a loader at work that each
declaration of a loaded module has been dealt with, or that a scan has yet to come to
it (`AllDealt`); that each module but the root comes from a declaration of its parent
that means its file and no other (`ComesFrom`); and that each error is about such a
declaration that `OneFile` denies (`Grounded`). When no scan is left, the modules
of one level are those that the level before declares, and so of all levels, by
induction.

The module also holds the proofs about `AstMerge`, for any files whose programs
have nodes as the constructors of `ast.vix` make them and indices that are in range
(`ContentsAssumption`: the parser has made what they name; the entry file has parsed,
or the driver does not get here):

* `SharedDeclaredOnce`: `MergeSpec => []DeclaredOnce`;
* `MergeKeepsMeaning`: `MergeSpec => []MergedMeansTheSame`.

The merge reads the modules that the loader has left, so both rest on `LoadInv`. For
the first, `Declared` says that what is merged so far has the externals and types
of the modules before the next, each once, and a written type wherever one of them
wrote it (`Sums`); one lemma says that adding a declaration keeps that, one that
adding a list does. For the second, `MeantSoFar` says that the indices of the merged
program are in range and its functions and variables mean what those of the modules
before the next do. A step of the merge extends a program and copies another into it
with indices moved (`Extends`). That this changes no tree is proved by induction over
the height (`SameTrees`): a node that was there names nodes that were there; a copied
one names the copies of what it named, since for each constructor every field that
code is made of is moved by the offset of the array it is into (`StmtFields`,
`ExprFields`). An index in range is needed for both: one that is not would name
nothing before and a node of the next module after.

In `SupportProofs`, for any sizes of tables, names and buffers and any inputs:

* `RuntimeIsOwn`: `PathSpec => []OwnRuntime`, where `found` is set once, to what
  `InOwnDir` says: the directory that the compiler finds is the one the shell found.
* `CallsAreTyped` and `NoNameIsLost`: `TableSpec => []CallsTyped`, and
  `RoomForEveryName`. Their invariant is `FunctionsInv`. `Follows`: what is pending is
  the rest of the plan, so that what was entered is a part of it. `TableOk`: each row
  comes from a function that was entered, each name that was entered and is short
  enough has a row or was refused, and the table was full when one was refused; if
  names fit, there is one row for each. `Roomy`: there are no more rows than names.
* `FieldsAreLaidOut`: `TableSpec => []FieldsAgree`. Its invariant `StructsInv` says
  of the structures that have been declared that they have rows, and of those that
  have been registered that their row holds the fields and LLVM's structure has
  their types, a structure that is registered later being known by its row. It needs
  that all are declared before the first is registered (`StructsInOrder`).
* `TextStaysInBuffer`: `LinkSpec => []TextFits`.
* `LinesEndOnce`: `LexerSpec => []OneSemicolonALine`, for texts of any length. The
  property is about texts that were read; the invariant `LexInv` says of a text being
  read what follows the last token. If that is a semicolon, a line has ended, what is
  before it may end a statement, and the next character of code may start one; if it
  is not, one of these three fails. The next character of code stays the same while
  blanks and comments are passed over (`NextIs`), which is why what is decided at the
  end of the line still holds when the next token is read.

`CallsTyped`, `RoomForEveryName` and `FieldsAgree` state themselves of which programs
they speak: `FunctionsFit`, no name is cut to the beginning of another and types fit
the fields that hold them; `LongOnce`, a name too long for its field, of which each
entry takes a row as no search finds it, is entered once; `StructsFit`, each structure
is declared once, with names and types that fit. The assumptions are those on the
constants in the modules.

Model-checked only is `WordsAsMeant`, which is about the splitting of a text put
together of pieces, quotes included, and needs a lemma that splitting and joining
commute.

### What the provers can do

The theorems of the library on induction take an operator as a parameter and cannot be
used here. Induction over numbers can be had from the well-foundedness of the order on
them (`WFMin`): a set of numbers that is not empty has a least element (`LeastIndex`),
so a set that has zero and the successor of each of its elements has all numbers
(`UpFromZero`). It serves for the loops of `ArrayRuntime`, the levels of the loader, the
text of the libraries, the place of the next character of code, the lists that the
merge goes through and the heights of trees. Of a function that is defined by
recursion it has to be proved, in this way, that there is one (`LinkTextIsDefined`,
`NextIsDefined`, `StepByStep`, `HeightsDefined`).

Left to TLC are the two liveness properties (`Terminates`, `CodeFinishes`); what
`BackEnds` checks, since the operators there recur over expressions; and the
soundness of the ownership checker outside straight-line code, which holds for families
of programs and not in general.

## Plan

1. Ownership checker (done; proved sound in straight-line code up to the gaps). Left to
   prove: moves through `if` and `while`, where the runs found no gap.
2. Name resolution (done, proved).
3. Back ends (done for control flow and values), native support (done). Left to
   prove: `WordsAsMeant`.
4. Module loader and merge (done, proved).
5. `LinearScan`: live intervals from the LIR and register assignment, on the code
   `MirOpt` leaves, whose blocks fall through; prove that overlapping intervals
   never share a register.
6. `Unify`: unification over a bounded term algebra, occurs check, what a failed
   unification leaves behind; prove that the substitution stays acyclic.
7. `DropPlan`: the typed analysis IR's edges and drop events against paths.
8. `MacroTable`: definitions and errors of the preprocessor. Parser recovery, stack
   slots of the x86-64 generator.

## Not modelled

Everything marked so in `PROJECT.json`. Instruction tables, formatting, the text
that `helper.c` and `runtime.c` make of numbers, the driver's options and printing
modes, linking for Windows and boot sectors, library source in Vix and the
generated seed compiler keep no state whose order could go wrong, and will stay
out. LLVM, lld, nasm, the C library and the collector are external: they appear as
what the code relies on.
